---------------------------- MODULE Spec2Model ----------------------------
(***************************************************************************)
(* A model of puny-http-server (src/app): the message model                *)
(* (http_request.py, http_response.py), the router (router.py), the        *)
(* handlers (handlers.py) and the connection handler and listener of       *)
(* HTTPServer (server.py).                                                 *)
(*                                                                         *)
(* Text is modelled by chunks: a request path is a sequence of atoms, each *)
(* atom a literal piece of the path ("/", "echo", "..", a newline); every  *)
(* other text is a TLA+ string.  Case folding and whitespace stripping are *)
(* tables over the vocabulary the model's inputs are drawn from.           *)
(***************************************************************************)
EXTENDS Integers, Sequences, FiniteSets, TLC

\* ------------------------------------------------------------------ text

\* str.upper() on the method tokens of the inputs.
Upper(s) ==
    CASE s \in {"GET", "get", "Get"} -> "GET"
      [] s \in {"POST", "post"} -> "POST"
      [] s \in {"PUT", "put"} -> "PUT"
      [] s \in {"BREW", "brew"} -> "BREW"
      [] OTHER -> s

\* Mutant: header names keep the case they were sent in.
Lower_Nothing(s) == s

\* str.lower() on the header names and values of the inputs.
Lower(s) ==
    CASE s \in {"Connection", "CONNECTION", "connection"} -> "connection"
      [] s \in {"User-Agent", "USER-AGENT", "user-agent"} -> "user-agent"
      [] s \in {"Accept-Encoding", "ACCEPT-ENCODING", "accept-encoding"} -> "accept-encoding"
      [] s \in {"Content-Length", "CONTENT-LENGTH", "content-length"} -> "content-length"
      [] s \in {"Content-Type", "content-type"} -> "content-type"
      [] s \in {"Content-Encoding", "content-encoding"} -> "content-encoding"
      [] s \in {"Host", "HOST", "host"} -> "host"
      [] s \in {"close", "Close", "CLOSE"} -> "close"
      [] s \in {"keep-alive", "Keep-Alive"} -> "keep-alive"
      [] OTHER -> s

\* Mutant: nothing is trimmed.
Strip_Nothing(s) == s

\* str.strip() on the header names and values of the inputs.
Strip(s) ==
    CASE s \in {" close", "close ", " close ", "close"} -> "close"
      [] s \in {" Close", " Close "} -> "Close"
      [] s \in {" CLOSE", "CLOSE "} -> "CLOSE"
      [] s \in {" keep-alive", "keep-alive "} -> "keep-alive"
      [] s \in {" curl/8", " curl/8 "} -> "curl/8"
      [] s \in {" gzip", " gzip "} -> "gzip"
      [] s \in {" deflate", " deflate "} -> "deflate"
      [] s \in {" localhost:4221"} -> "localhost:4221"
      [] s \in {"Connection ", " Connection"} -> "Connection"
      [] s \in {"Host ", " Host"} -> "Host"
      [] OTHER -> s

\* sep.join(parts) for a sequence of strings.
RECURSIVE Join(_, _)
Join(parts, sep) ==
    IF parts = <<>> THEN ""
    ELSE IF Len(parts) = 1 THEN parts[1]
    ELSE parts[1] \o sep \o Join(Tail(parts), sep)

\* "".join(atoms): the text of a sequence of path atoms.
PathText(atoms) == Join(atoms, "")

\* ------------------------------------------------------------ constants

\* Mutant: one more method is known.
HTTPMethod_AndBrew == {"GET", "POST", "PUT", "DELETE", "HEAD", "OPTIONS", "PATCH", "BREW"}

HTTPMethod == {"GET", "POST", "PUT", "DELETE", "HEAD", "OPTIONS", "PATCH"}

OK == 200
CREATED == 201
BAD_REQUEST == 400
FORBIDDEN == 403
NOT_FOUND == 404
METHOD_NOT_ALLOWED == 405
INTERNAL_SERVER_ERROR == 500

\* STATUS_TEXT.get(status_code, default)
STATUS_TEXT(code, default) ==
    CASE code = OK -> "OK"
      [] code = CREATED -> "Created"
      [] code = NOT_FOUND -> "Not Found"
      [] code = FORBIDDEN -> "Forbidden"
      [] code = INTERNAL_SERVER_ERROR -> "Internal Server Error"
      [] code = BAD_REQUEST -> "Bad Request"
      [] code = METHOD_NOT_ALLOWED -> "Method Not Allowed"
      [] OTHER -> default

PROTOCOL_VERSION == "HTTP/1.1"

CONNECTION == "Connection"
CONTENT_LENGTH == "Content-Length"
CONTENT_TYPE == "Content-Type"
CONTENT_ENCODING == "Content-Encoding"
USER_AGENT == "User-Agent"
ACCEPT_ENCODING == "Accept-Encoding"

TEXT_PLAIN == "text/plain"
APP_OCTET_STREAM == "application/octet-stream"

\* ----------------------------------------------------------- exceptions

\* HTTPException(status_code, message): message or STATUS_TEXT.get(status_code, "Unknown Error")
HTTPException(status_code, message) ==
    [kind |-> "http_error",
     status_code |-> status_code,
     message |-> IF message # "" THEN message ELSE STATUS_TEXT(status_code, "Unknown Error")]

HTTPBadRequestError(message) == HTTPException(BAD_REQUEST, message)
HTTPNotFoundError(message) == HTTPException(NOT_FOUND, message)
HTTPForbiddenError(message) == HTTPException(FORBIDDEN, message)
HTTPMethodNotAllowedError(message) == HTTPException(METHOD_NOT_ALLOWED, message)
HTTPInternalServerError(message) == HTTPException(INTERNAL_SERVER_ERROR, message)

\* Any exception that is no HTTPException and no transport error.
UnexpectedError == [kind |-> "error", status_code |-> 0, message |-> ""]

\* ------------------------------------------------------------- HTTPRequest
\* The bytes of one recv, by their structure:
\*   utf8   whether bytes.decode('utf-8') succeeds
\*   start  the start line split on every " " (the second token, the path,
\*          as a sequence of atoms; the others as strings)
\*   lines  the lines after the start line up to the blank line, each split on
\*          every ":" (<<"">> is an empty line)
\*   body   the text after the first blank line, "" when there is none

\* str.split(" ", 2) on the start line: at most three parts, the third keeping
\* its spaces; fewer than three parts fail to unpack (ValueError).
SplitStartLine(start) ==
    IF Len(start) < 3
      THEN [ok |-> FALSE, method_str |-> "", path |-> <<>>, protocol |-> ""]
      ELSE [ok |-> TRUE, method_str |-> start[1], path |-> start[2],
            protocol |-> Join(SubSeq(start, 3, Len(start)), " ")]

\* The header loop of from_bytes over the lines that are left; acc is the
\* headers mapping built so far.
RECURSIVE ParseHeaders(_, _)
ParseHeaders(lines, acc) ==
    IF lines = <<>> THEN [ok |-> TRUE, headers |-> acc]
    ELSE LET line == Head(lines) IN
         IF line = <<"">> THEN [ok |-> TRUE, headers |-> acc]
         ELSE IF Len(line) >= 2
           THEN LET key == Lower(Strip(line[1]))
                    value == Strip(Join(Tail(line), ":"))
                IN ParseHeaders(Tail(lines),
                       [k \in (DOMAIN acc) \cup {key} |-> IF k = key THEN value ELSE acc[k]])
           ELSE [ok |-> FALSE, headers |-> acc]

NoRequest ==
    [method |-> "", path |-> <<>>, protocol |-> "", headers |-> <<>>, body |-> ""]

\* HTTPRequest.from_bytes: the request, or the HTTPBadRequestError it raises.
from_bytes(request_bytes) ==
    IF ~request_bytes.utf8
      THEN [ok |-> FALSE, request |-> NoRequest,
            error |-> HTTPBadRequestError("Invalid encoding in request")]
    ELSE LET sl == SplitStartLine(request_bytes.start) IN
    IF ~sl.ok
      THEN [ok |-> FALSE, request |-> NoRequest,
            error |-> HTTPBadRequestError("Malformed start line")]
    ELSE IF Upper(sl.method_str) \notin HTTPMethod
      THEN [ok |-> FALSE, request |-> NoRequest,
            error |-> HTTPBadRequestError("Unsupported HTTP method")]
    ELSE LET hs == ParseHeaders(request_bytes.lines, <<>>) IN
    IF ~hs.ok
      THEN [ok |-> FALSE, request |-> NoRequest,
            error |-> HTTPBadRequestError("Malformed header line")]
    ELSE [ok |-> TRUE,
          request |-> [method |-> Upper(sl.method_str), path |-> sl.path,
                       protocol |-> sl.protocol, headers |-> hs.headers,
                       body |-> request_bytes.body],
          error |-> UnexpectedError]

\* HTTPRequest.get_header
get_header(request, name, default) ==
    IF Lower(name) \in DOMAIN request.headers
      THEN request.headers[Lower(name)]
      ELSE default

\* Mutant: the header value is compared as it was sent.
should_close_connection_CaseSensitive(request) ==
    get_header(request, CONNECTION, "") = "close"

\* HTTPRequest.should_close_connection
should_close_connection(request) ==
    Lower(get_header(request, CONNECTION, "")) = "close"

\* ------------------------------------------------------------ HTTPResponse
\* headers is the dict in insertion order: a sequence of <<name, value>>.
\* body is [present, data]: None is [present |-> FALSE].

NoBody == [present |-> FALSE, data |-> ""]
Body(data) == [present |-> TRUE, data |-> data]

HeaderNames(headers) == {headers[i][1] : i \in DOMAIN headers}

\* dict[key] = value: replaces the value in place, or appends the key.
DictSet(headers, key, value) ==
    IF key \in HeaderNames(headers)
      THEN [i \in DOMAIN headers |->
               IF headers[i][1] = key THEN <<key, value>> ELSE headers[i]]
      ELSE Append(headers, <<key, value>>)

DictGet(headers, key, default) ==
    IF key \in HeaderNames(headers)
      THEN LET i == CHOOSE j \in DOMAIN headers : headers[j][1] = key IN headers[i][2]
      ELSE default

\* text.encode("utf-8"): an ASCII text is its own bytes; é (U+00E9) becomes
\* the two bytes C3 A9, written Ã©.
Utf8Encode(text) ==
    CASE text = "café" -> "cafÃ©"
      [] text = "File not found: café" -> "File not found: cafÃ©"
      [] OTHER -> text

\* HTTPResponse._encode_body: bytes stay, text is UTF-8 encoded, None becomes
\* b"".
EncodeBody(body) == IF body.present THEN Utf8Encode(body.data) ELSE ""

\* Mutant: Content-Length is the length of the body before it is encoded.
HTTPResponse_TextLength(status_code, headers, body, status_text) ==
    LET setLength == body.present
                     /\ Lower(CONTENT_LENGTH) \notin {Lower(k) : k \in HeaderNames(headers)}
    IN [status_code |-> status_code,
        status_text |-> IF status_text # "" THEN status_text
                        ELSE STATUS_TEXT(status_code, "Unknown"),
        headers |-> IF setLength
                      THEN DictSet(headers, CONTENT_LENGTH, ToString(Len(body.data)))
                      ELSE headers,
        body |-> body,
        encoded |-> setLength]

\* HTTPResponse.__init__
HTTPResponse(status_code, headers, body, status_text) ==
    LET setLength == body.present
                     /\ Lower(CONTENT_LENGTH) \notin {Lower(k) : k \in HeaderNames(headers)}
    IN [status_code |-> status_code,
        status_text |-> IF status_text # "" THEN status_text
                        ELSE STATUS_TEXT(status_code, "Unknown"),
        headers |-> IF setLength
                      THEN DictSet(headers, CONTENT_LENGTH, ToString(Len(EncodeBody(body))))
                      ELSE headers,
        body |-> body,
        encoded |-> setLength]

\* The response object after to_bytes(close_connection): the Connection
\* header is stored into self.headers and the body is encoded.
ToBytesSelf(self, close_connection) ==
    [self EXCEPT !.encoded = TRUE,
                 !.headers = IF close_connection
                               THEN DictSet(self.headers, CONNECTION, "close")
                               ELSE self.headers]

\* HTTPResponse.to_bytes: the bytes, as status line, header lines and body.
to_bytes(self, close_connection) ==
    LET after == ToBytesSelf(self, close_connection) IN
    [status_line |-> <<PROTOCOL_VERSION, after.status_code, after.status_text>>,
     headers |-> after.headers,
     body |-> EncodeBody(after.body)]

\* ------------------------------------------------------------------ Router
\* A route is [method, path_regex, handler]: path_regex is the pattern given
\* to add_route as a sequence of atoms, each a literal atom or DotStar; handler
\* is the handler's name.

DotStar == ".*"
NL == "\n"

\* re.compile("^" + pattern + "$").match(path), on atoms: a literal matches
\* itself, ".*" matches any run of atoms without a newline, and "$" matches at
\* the end of the path or before a newline that ends it.
RECURSIVE RegexMatch(_, _)
RegexMatch(pattern, path) ==
    IF pattern = <<>> THEN path = <<>> \/ path = <<NL>>
    ELSE IF Head(pattern) = DotStar
      THEN \/ RegexMatch(Tail(pattern), path)
           \/ path # <<>> /\ Head(path) # NL /\ RegexMatch(pattern, Tail(path))
    ELSE path # <<>> /\ Head(path) = Head(pattern)
         /\ RegexMatch(Tail(pattern), Tail(path))

\* Router.add_route
add_route(routes, method, path_pattern, handler) ==
    Append(routes, [method |-> method, path_regex |-> path_pattern, handler |-> handler])

\* The order of sorted() on the method names.
MethodRank(m) ==
    CASE m = "DELETE" -> 1 [] m = "GET" -> 2 [] m = "HEAD" -> 3 [] m = "OPTIONS" -> 4
      [] m = "PATCH" -> 5 [] m = "POST" -> 6 [] m = "PUT" -> 7 [] OTHER -> 8

\* sorted(allowed_methods)
RECURSIVE Sorted(_)
Sorted(methods) ==
    IF methods = {} THEN <<>>
    ELSE LET m == CHOOSE x \in methods : \A y \in methods : MethodRank(x) <= MethodRank(y)
         IN <<m>> \o Sorted(methods \ {m})

\* The loop of find_handler from route i on.
RECURSIVE FindFrom(_, _, _, _, _, _)
FindFrom(routes, i, request, allowed_methods, path_matched, default_handler) ==
    IF i > Len(routes)
      THEN IF path_matched
             THEN [kind |-> "http_error", handler |-> "",
                   allowed |-> Sorted(allowed_methods),
                   error |-> HTTPMethodNotAllowedError(
                       "Method " \o request.method \o " not allowed for "
                       \o PathText(request.path) \o ". Allowed: "
                       \o Join(Sorted(allowed_methods), ", "))]
             ELSE [kind |-> "handler", handler |-> default_handler,
                   allowed |-> <<>>, error |-> UnexpectedError]
    ELSE IF RegexMatch(routes[i].path_regex, request.path)
      THEN IF request.method = routes[i].method
             THEN [kind |-> "handler", handler |-> routes[i].handler,
                   allowed |-> <<>>, error |-> UnexpectedError]
             ELSE FindFrom(routes, i + 1, request,
                           allowed_methods \cup {routes[i].method}, TRUE, default_handler)
    ELSE FindFrom(routes, i + 1, request, allowed_methods, path_matched, default_handler)

\* Mutant: the last route that matches path and method wins.
find_handler_LastMatch(routes, default_handler, request) ==
    LET hits == {i \in DOMAIN routes :
                    /\ RegexMatch(routes[i].path_regex, request.path)
                    /\ routes[i].method = request.method}
        last == CHOOSE i \in hits : \A j \in hits : j <= i
    IN IF hits # {}
         THEN [kind |-> "handler", handler |-> routes[last].handler,
               allowed |-> <<>>, error |-> UnexpectedError]
         ELSE FindFrom(routes, 1, request, {}, FALSE, default_handler)

\* Router.find_handler
find_handler(routes, default_handler, request) ==
    FindFrom(routes, 1, request, {}, FALSE, default_handler)

\* ---------------------------------------------------------------- paths
\* A directory or file path is, like a request path, a sequence of atoms: "/"
\* and the names between the slashes.  A resolved (absolute, normalised) path
\* is the sequence of its names: <<"srv", "data", "a.txt">> is /srv/data/a.txt.

\* A name that holds a null byte.
NUL == "\\0"

\* text[n:] on atoms; the cut falls between two atoms for the prefixes the
\* routes bind ("/echo/" is 6 characters, "/files/" is 7).
RECURSIVE DropChars(_, _)
DropChars(atoms, n) ==
    IF n <= 0 \/ atoms = <<>> THEN atoms
    ELSE IF Len(Head(atoms)) <= n THEN DropChars(Tail(atoms), n - Len(Head(atoms)))
    ELSE atoms

\* os.path.join(a, b): an absolute b replaces a.
PathJoin(a, b) ==
    IF b # <<>> /\ Head(b) = "/" THEN b
    ELSE IF a = <<>> \/ a[Len(a)] = "/" THEN a \o b
    ELSE a \o <<"/">> \o b

\* The working directory of the server process.
Cwd == <<"/", "home">>

\* os.path.normpath on an absolute path: the names left after "." and empty
\* names are dropped and each ".." has removed the name before it.
RECURSIVE NormPath(_, _)
NormPath(atoms, acc) ==
    IF atoms = <<>> THEN acc
    ELSE LET a == Head(atoms) IN
         IF a \in {"/", ".", ""} THEN NormPath(Tail(atoms), acc)
         ELSE IF a = ".."
           THEN NormPath(Tail(atoms),
                         IF acc = <<>> THEN acc ELSE SubSeq(acc, 1, Len(acc) - 1))
         ELSE NormPath(Tail(atoms), Append(acc, a))

\* Mutant: the path is made absolute but .. is left in it.
AbsPath_Raw(atoms) ==
    LET IsName(a) == a \notin {"/", ".", ""}
    IN IF atoms # <<>> /\ Head(atoms) = "/" THEN SelectSeq(atoms, IsName)
       ELSE SelectSeq(PathJoin(Cwd, atoms), IsName)

\* os.path.abspath
AbsPath(atoms) ==
    IF atoms # <<>> /\ Head(atoms) = "/" THEN NormPath(atoms, <<>>)
    ELSE NormPath(PathJoin(Cwd, atoms), <<>>)

\* a.startswith(b) for two names.
NameStartsWith(a, b) ==
    a = b \/ <<a, b>> \in {<<"data-private", "data">>, <<"database", "data">>}

\* full.startswith(root) for the texts of two resolved paths: a comparison of
\* characters, so the last name of root may be continued in full.
StartsWith(full, root) ==
    \/ root = <<>>
    \/ /\ Len(full) >= Len(root)
       /\ SubSeq(full, 1, Len(root) - 1) = SubSeq(root, 1, Len(root) - 1)
       /\ NameStartsWith(full[Len(root)], root[Len(root)])

\* ---------------------------------------------------------- file system
\* The file system is a function from the resolved paths of FsPaths to
\* [kind, data], kind one of "none", "dir", "file".

FsPaths ==
    {<<>>, <<"srv">>, <<"srv", "data">>, <<"srv", "data", "a.txt">>,
     <<"srv", "data", "sub">>, <<"srv", "data", "sub", "b.txt">>,
     <<"srv", "data-private">>, <<"srv", "data-private", "x">>,
     <<"etc">>, <<"etc", "passwd">>}

NoNode == [kind |-> "none", data |-> ""]
DirNode == [kind |-> "dir", data |-> ""]
FileNode(data) == [kind |-> "file", data |-> data]

HasNul(path) == \E i \in DOMAIN path : path[i] = NUL

\* os.path.exists (False for a path with an embedded null byte)
PathExists(fs, path) == ~HasNul(path) /\ path \in DOMAIN fs /\ fs[path].kind # "none"

\* os.path.isfile
PathIsFile(fs, path) == ~HasNul(path) /\ path \in DOMAIN fs /\ fs[path].kind = "file"

\* os.path.dirname of a resolved path
DirName(path) == IF path = <<>> THEN <<>> ELSE SubSeq(path, 1, Len(path) - 1)

Prefixes(path) == {SubSeq(path, 1, n) : n \in 0..Len(path)}

\* Mutant: no directory is made.
MakeDirs_Nothing(fs, path) == [ok |-> TRUE, oserror |-> FALSE, fs |-> fs]

\* os.makedirs(path, exist_ok=True): fails when a name on the way is a file
\* (or holds a null byte); otherwise every missing directory on the way exists
\* afterwards.
MakeDirs(fs, path) ==
    IF HasNul(path) THEN [ok |-> FALSE, oserror |-> FALSE, fs |-> fs]
    ELSE IF \E q \in Prefixes(path) : q \in DOMAIN fs /\ fs[q].kind = "file"
      THEN [ok |-> FALSE, oserror |-> TRUE, fs |-> fs]
    ELSE [ok |-> TRUE, oserror |-> FALSE,
          fs |-> [q \in DOMAIN fs |->
                     IF q \in Prefixes(path) /\ fs[q].kind = "none" THEN DirNode ELSE fs[q]]]

\* --------------------------------------------------------------- handlers
\* A handler's outcome is [kind, response, error, fs]: kind "response" with the
\* HTTPResponse it returns, or kind "raise" with the exception it raises, and
\* the file system it leaves.  io is what the operating system answers to
\* the handler's open/read/write: "ok" or "oserror".

NoResponse ==
    [status_code |-> 0, status_text |-> "", headers |-> <<>>, body |-> NoBody,
     encoded |-> FALSE]

Return(response, fs) ==
    [kind |-> "response", response |-> response, error |-> UnexpectedError, fs |-> fs]

Raise(error, fs) ==
    [kind |-> "raise", response |-> NoResponse, error |-> error, fs |-> fs]

\* gzip.compress
GzipCompress(data) == "gzip<" \o data \o ">"

\* value.split(",") for the Accept-Encoding values of the inputs.
SplitComma(value) ==
    CASE value = "gzip, deflate" -> <<"gzip", " deflate">>
      [] value = "deflate,gzip" -> <<"deflate", "gzip">>
      [] value = "deflate, gzip" -> <<"deflate", " gzip">>
      [] OTHER -> <<value>>

handle_root(request, directory, fs, io) ==
    Return(HTTPResponse(OK, <<>>, NoBody, ""), fs)

handle_echo(request, directory, fs, io) ==
    LET echo_str == PathText(DropChars(request.path, Len("/echo/")))
        encs == SplitComma(get_header(request, ACCEPT_ENCODING, ""))
        gzip == \E i \in DOMAIN encs : Strip(encs[i]) = "gzip"
        headers == IF gzip
                     THEN <<<<CONTENT_TYPE, TEXT_PLAIN>>, <<CONTENT_ENCODING, "gzip">>>>
                     ELSE <<<<CONTENT_TYPE, TEXT_PLAIN>>>>
        response_body == IF gzip THEN GzipCompress(Utf8Encode(echo_str))
                         ELSE Utf8Encode(echo_str)
    IN Return(HTTPResponse(OK, headers, Body(response_body), ""), fs)

handle_user_agent(request, directory, fs, io) ==
    Return(HTTPResponse(OK, <<<<CONTENT_TYPE, TEXT_PLAIN>>>>,
                        Body(get_header(request, USER_AGENT, "Unknown")), ""), fs)

handle_file_get(request, directory, fs, io) ==
    IF directory = <<>>
      THEN Raise(HTTPInternalServerError("File directory not configured on server."), fs)
    ELSE LET relative_file_path == DropChars(request.path, Len("/files/"))
             full_file_path == AbsPath(PathJoin(directory, relative_file_path))
         IN
    IF ~StartsWith(full_file_path, AbsPath(directory))
      THEN Raise(HTTPForbiddenError("Access denied to file path."), fs)
    ELSE IF ~PathExists(fs, full_file_path)
      THEN Raise(HTTPNotFoundError("File not found: " \o PathText(relative_file_path)), fs)
    ELSE IF ~PathIsFile(fs, full_file_path)
      THEN Raise(HTTPNotFoundError("Path is not a file: " \o PathText(relative_file_path)), fs)
    ELSE IF io = "oserror"
      THEN Raise(HTTPInternalServerError("Error reading file."), fs)
    ELSE Return(HTTPResponse(OK, <<<<CONTENT_TYPE, APP_OCTET_STREAM>>>>,
                             Body(fs[full_file_path].data), ""), fs)

\* Mutant: the traversal check comes after the file has been written.
handle_file_post_ChecksAfterWriting(request, directory, fs, io) ==
    IF directory = <<>>
      THEN Raise(HTTPInternalServerError("File directory not configured on server."), fs)
    ELSE LET relative_file_path == DropChars(request.path, Len("/files/"))
             full_file_path == AbsPath(PathJoin(directory, relative_file_path))
             body_bytes == Utf8Encode(request.body)
             made == MakeDirs(fs, DirName(full_file_path))
         IN
    IF ~StartsWith(full_file_path, AbsPath(directory))
      THEN Raise(HTTPForbiddenError("Access denied to file path."),
                 IF made.ok /\ ~HasNul(full_file_path)
                   THEN [made.fs EXCEPT ![full_file_path] = FileNode(body_bytes)]
                   ELSE fs)
    ELSE IF ~made.ok
      THEN IF made.oserror
             THEN Raise(HTTPInternalServerError("Error writing file."), fs)
             ELSE Raise(UnexpectedError, fs)
    ELSE IF HasNul(full_file_path)
      THEN Raise(UnexpectedError, made.fs)
    ELSE IF io = "oserror"
            \/ (full_file_path \in DOMAIN fs /\ made.fs[full_file_path].kind = "dir")
      THEN Raise(HTTPInternalServerError("Error writing file."), made.fs)
    ELSE Return(HTTPResponse(CREATED, <<>>, Body(""), ""),
                [made.fs EXCEPT ![full_file_path] = FileNode(body_bytes)])

handle_file_post(request, directory, fs, io) ==
    IF directory = <<>>
      THEN Raise(HTTPInternalServerError("File directory not configured on server."), fs)
    ELSE LET relative_file_path == DropChars(request.path, Len("/files/"))
             full_file_path == AbsPath(PathJoin(directory, relative_file_path))
             body_bytes == Utf8Encode(request.body)
             made == MakeDirs(fs, DirName(full_file_path))
         IN
    IF ~StartsWith(full_file_path, AbsPath(directory))
      THEN Raise(HTTPForbiddenError("Access denied to file path."), fs)
    ELSE IF ~made.ok
      THEN IF made.oserror
             THEN Raise(HTTPInternalServerError("Error writing file."), fs)
             ELSE Raise(UnexpectedError, fs)
    ELSE IF HasNul(full_file_path)
      THEN Raise(UnexpectedError, made.fs)
    ELSE IF io = "oserror"
            \/ (full_file_path \in DOMAIN fs /\ made.fs[full_file_path].kind = "dir")
      THEN Raise(HTTPInternalServerError("Error writing file."), made.fs)
    ELSE Return(HTTPResponse(CREATED, <<>>, Body(""), ""),
                [made.fs EXCEPT ![full_file_path] = FileNode(body_bytes)])

handle_not_found(request, directory, fs, io) ==
    Return(HTTPResponse(NOT_FOUND, <<>>, Body("Resource not found."), ""), fs)

\* handler(request, self.directory) for the handler of that name.
CallHandler(handler, request, directory, fs, io) ==
    CASE handler = "handle_root" -> handle_root(request, directory, fs, io)
      [] handler = "handle_echo" -> handle_echo(request, directory, fs, io)
      [] handler = "handle_user_agent" -> handle_user_agent(request, directory, fs, io)
      [] handler = "handle_file_get" -> handle_file_get(request, directory, fs, io)
      [] handler = "handle_file_post" -> handle_file_post(request, directory, fs, io)
      [] OTHER -> handle_not_found(request, directory, fs, io)

\* ------------------------------------------------- the connection's request
\* Lines 62-99 of HTTPServer._handle_client_connection: what one received
\* buffer becomes.  The except clauses are operators of their own.

\* Mutant of line 91: every HTTPException is answered as a 500.
ErrorResponse_Always500(e) == HTTPResponse(INTERNAL_SERVER_ERROR, <<>>, Body(e.message), "")

\* except HTTPException as e: response = HTTPResponse(status_code=e.status_code, body=e.message)
ErrorResponse(e) == HTTPResponse(e.status_code, <<>>, Body(e.message), "")

\* Mutants of line 93: every HTTPException closes; no HTTPException closes;
\* every status from 400 on closes.
CloseOnHTTPException_Always(close_connection, e) == TRUE
CloseOnHTTPException_Forgets5xx(close_connection, e) == close_connection
CloseOnHTTPException_Any4xx(close_connection, e) == close_connection \/ e.status_code >= 400

\* except HTTPException: close_connection = close_connection or e.status_code.value >= 500
CloseOnHTTPException(close_connection, e) == close_connection \/ e.status_code >= 500

\* except Exception: the response of HTTPInternalServerError()
UnexpectedResponse == ErrorResponse(HTTPInternalServerError(""))

\* except Exception: close_connection = True
CloseOnUnexpected == TRUE

Cycle(request, response, close_connection, fault, fs) ==
    [request |-> request, response |-> response,
     close_connection |-> close_connection, fault |-> fault, fs |-> fs]

\* The exception e reaches the except clauses with close_connection as it is.
Except(e, request, close_connection, fault, fs) ==
    IF e.kind = "http_error"
      THEN Cycle(request, ErrorResponse(e), CloseOnHTTPException(close_connection, e),
                 fault, fs)
      ELSE Cycle(request, UnexpectedResponse, CloseOnUnexpected, "unexpected", fs)

\* Parse, route, call the handler.  fault names where an exception came from:
\* "parse", "route", "handler" (an HTTPException), "unexpected", or "none".
ProcessRequest(request_bytes, routes, default_handler, directory, fs, io) ==
    LET parsed == from_bytes(request_bytes) IN
    IF ~parsed.ok THEN Except(parsed.error, NoRequest, FALSE, "parse", fs)
    ELSE LET request == parsed.request
             close_connection == should_close_connection(request)
             found == find_handler(routes, default_handler, request)
         IN
    IF found.kind # "handler"
      THEN Except(found.error, request, close_connection, "route", fs)
    ELSE LET out == CallHandler(found.handler, request, directory, fs, io) IN
    IF out.kind = "raise"
      THEN Except(out.error, request, close_connection, "handler", out.fs)
      ELSE Cycle(request, out.response, close_connection, "none", out.fs)

\* ------------------------------------------------------------------ inputs

\* The requests one connection may send before the model stops feeding it.
MaxRequests == 2

\* The connections the listener may accept.
Conns == {"A", "B"}

Bytes(start, lines, body) == [utf8 |-> TRUE, start |-> start, lines |-> lines, body |-> body]

NoBytes == Bytes(<<"">>, <<>>, "")

Undecodable == [utf8 |-> FALSE, start |-> <<"">>, lines |-> <<>>, body |-> ""]

HostLine == <<"Host", " localhost", "4221">>

\* The buffers a peer sends: well-formed requests for every route, with and
\* without Connection: close in several spellings, and malformed ones.
WellFormed ==
    {Bytes(<<"GET", <<"/">>, "HTTP/1.1">>, <<HostLine>>, ""),
     Bytes(<<"GET", <<"/", "echo", "/", "abc">>, "HTTP/1.1">>, <<<<"Connection", " close">>>>, ""),
     Bytes(<<"GET", <<"/", "echo", "/", "abc">>, "HTTP/1.1">>,
           <<<<"Connection", " keep-alive">>>>, ""),
     Bytes(<<"get", <<"/", "user-agent">>, "HTTP/1.1">>,
           <<<<"User-Agent", " curl/8">>, <<"CONNECTION", " Close">>>>, ""),
     Bytes(<<"GET", <<"/", "files", "/", "a.txt">>, "HTTP/1.1">>, <<HostLine>>, ""),
     Bytes(<<"GET", <<"/", "files", "/", "a.txt">>, "HTTP/1.1">>,
           <<<<"connection", " CLOSE">>>>, ""),
     Bytes(<<"POST", <<"/", "files", "/", "a.txt">>, "HTTP/1.1">>, <<HostLine>>, "hello"),
     Bytes(<<"POST", <<"/", "files", "/", NUL>>, "HTTP/1.1">>, <<>>, "hello"),
     Bytes(<<"GET", <<"/", "files", "/", "..", "/", "..", "/", "etc", "/", "passwd">>,
             "HTTP/1.1">>, <<>>, ""),
     Bytes(<<"GET", <<"/", "files", "/", "..", "/", "..", "/", "etc", "/", "passwd">>,
             "HTTP/1.1">>, <<<<"Connection", " close">>>>, ""),
     Bytes(<<"PUT", <<"/", "echo", "/", "x">>, "HTTP/1.1">>, <<>>, ""),
     Bytes(<<"GET", <<"/", "nope">>, "HTTP/1.1">>, <<>>, "")}

Malformed ==
    {Undecodable,
     Bytes(<<"GET", <<"/">>>>, <<>>, ""),
     Bytes(<<"BREW", <<"/">>, "HTTP/1.1">>, <<>>, ""),
     Bytes(<<"GET", <<"/">>, "HTTP/1.1">>, <<<<"Connection", " close">>, <<"garbage">>>>, "")}

Buffers == WellFormed \cup Malformed

\* What the operating system answers to a handler's file operation.
IoOutcomes == {"ok", "oserror"}

\* The exceptions a socket call raises: socket.timeout, ConnectionResetError,
\* BrokenPipeError.
TransportErrors == {"timeout", "reset", "pipe"}

\* The routes of the server: those of the ROUTES table.
ConfiguredRoutes ==
    LET r1 == add_route(<<>>, "GET", <<"/">>, "handle_root")
        r2 == add_route(r1, "GET", <<"/", "echo", "/", DotStar>>, "handle_echo")
        r3 == add_route(r2, "GET", <<"/", "user-agent">>, "handle_user_agent")
        r4 == add_route(r3, "GET", <<"/", "files", "/", DotStar>>, "handle_file_get")
    IN add_route(r4, "POST", <<"/", "files", "/", DotStar>>, "handle_file_post")

\* The --directory the server is started with.
ConfiguredDirectory == <<"/", "srv", "/", "data">>

\* The file system at start: the root directory exists and is empty.
InitialFs ==
    [q \in FsPaths |->
        IF q \in {<<>>, <<"srv">>, <<"srv", "data">>, <<"etc">>} THEN DirNode
        ELSE IF q = <<"etc", "passwd">> THEN FileNode("root:x:0:0")
        ELSE NoNode]

\* ------------------------------------------------------------------- state

VARIABLES
    routes,            \* Router._routes
    default_handler,   \* Router.default_handler
    directory,         \* HTTPServer.directory (<<>> is None)
    fs,                \* the file system
    is_running,        \* HTTPServer._is_running
    server_socket,     \* HTTPServer._server_socket: "none" or "open"
    lpc,               \* where HTTPServer.start is
    start_error,       \* the exception that leaves HTTPServer.start, or "none"
    pc,                \* where each connection's handler thread is
    sock,              \* each accepted socket
    request_bytes,     \* each handler's request_bytes
    request,           \* each handler's request
    response,          \* each handler's response
    close_connection,  \* each handler's close_connection
    wire,              \* what each handler has written to its socket in this cycle
    fault,             \* the except clause each handler's cycle went through
    served,            \* how many buffers each connection has delivered
    answered,          \* how many whole responses each connection has been sent
    resolved,          \* the last Router.find_handler call made on its own
    called,            \* the last handler or parser call made on its own
    posting            \* each handle_file_post that runs step by step

shared == <<routes, default_handler, directory>>
listener == <<is_running, server_socket, lpc, start_error>>
handlers ==
    <<pc, sock, request_bytes, request, response, close_connection, wire, fault, served,
      answered>>
\* The calls made on their own, outside a connection.
direct == <<resolved, called, posting>>
vars == <<shared, fs, listener, handlers, direct>>

NoSocket == [fd |-> "none", shutdown |-> FALSE, peer |-> "up"]
NoWire ==
    [written |-> "none",
     bytes |-> [status_line |-> <<"", 0, "">>, headers |-> <<>>, body |-> ""]]
NoCall == [op |-> "", request |-> NoRequest, directory |-> <<>>, io |-> "", kind |-> "",
           response |-> NoResponse, error |-> UnexpectedError]
NoPost == [at |-> "", path |-> <<>>, body |-> "", status |-> 0]
NoLookup == [method |-> "", path |-> <<>>, kind |-> "", handler |-> "", allowed |-> <<>>]

\* The state after HTTPServer.__init__ and Router.__init__, but for the routes.
Constructed ==
    /\ default_handler = "handle_not_found"
    /\ directory = ConfiguredDirectory
    /\ fs = InitialFs
    /\ is_running = FALSE
    /\ server_socket = "none"
    /\ lpc = "new"
    /\ start_error = "none"
    /\ pc = [c \in Conns |-> "unborn"]
    /\ sock = [c \in Conns |-> NoSocket]
    /\ request_bytes = [c \in Conns |-> NoBytes]
    /\ request = [c \in Conns |-> NoRequest]
    /\ response = [c \in Conns |-> NoResponse]
    /\ close_connection = [c \in Conns |-> FALSE]
    /\ wire = [c \in Conns |-> NoWire]
    /\ fault = [c \in Conns |-> "none"]
    /\ served = [c \in Conns |-> 0]
    /\ answered = [c \in Conns |-> 0]
    /\ resolved = NoLookup
    /\ called = NoCall
    /\ posting = [c \in Conns |-> NoPost]

Init == routes = ConfiguredRoutes /\ Constructed

\* ---------------------------------------------------------------- Listener
\* HTTPServer.start and HTTPServer.stop.  lpc: "new" (start not yet run),
\* "test" (at the while condition), "accept" (at or in accept()), "finally",
\* "returned".

\* socket.create_server and _is_running = True, or the OSError of a failed bind.
StartServer ==
    /\ lpc = "new"
    /\ \/ /\ server_socket' = "open"
          /\ is_running' = TRUE
          /\ lpc' = "test"
       \/ /\ lpc' = "finally"
          /\ UNCHANGED <<server_socket, is_running>>
    /\ UNCHANGED <<shared, fs, start_error, handlers, direct>>

\* while self._is_running
LoopTest ==
    /\ lpc = "test"
    /\ lpc' = IF is_running THEN "accept" ELSE "finally"
    /\ UNCHANGED <<shared, fs, is_running, server_socket, start_error, handlers, direct>>

\* Mutant: the loop joins each handler thread before it accepts again.
Accept_WaitsForHandlers(c) ==
    /\ lpc = "accept"
    /\ server_socket = "open"
    /\ pc[c] = "unborn"
    /\ \A d \in Conns : pc[d] \in {"unborn", "done"}
    /\ pc' = [pc EXCEPT ![c] = "settimeout"]
    /\ sock' = [sock EXCEPT ![c] = [fd |-> "open", shutdown |-> FALSE, peer |-> "up"]]
    /\ lpc' = "test"
    /\ UNCHANGED <<shared, fs, is_running, server_socket, start_error, direct,
                   request_bytes, request, response, close_connection, wire, fault, served,
                   answered>>

\* accept() returns connection c; its handler thread is started.
Accept(c) ==
    /\ lpc = "accept"
    /\ server_socket = "open"
    /\ pc[c] = "unborn"
    /\ pc' = [pc EXCEPT ![c] = "settimeout"]
    /\ sock' = [sock EXCEPT ![c] = [fd |-> "open", shutdown |-> FALSE, peer |-> "up"]]
    /\ lpc' = "test"
    /\ UNCHANGED <<shared, fs, is_running, server_socket, start_error, direct,
                   request_bytes, request, response, close_connection, wire, fault, served,
                   answered>>

\* accept() raises OSError: on an open socket the loop goes on; on a socket
\* closed by stop() the loop ends.
AcceptOSError ==
    /\ lpc = "accept"
    /\ lpc' = IF is_running THEN "test" ELSE "finally"
    /\ UNCHANGED <<shared, fs, is_running, server_socket, start_error, handlers, direct>>

\* self._server_socket.accept() when stop() has already set _server_socket to
\* None: an AttributeError, which no except clause of start catches.
AcceptOnNone ==
    /\ lpc = "accept"
    /\ server_socket = "none"
    /\ lpc' = "finally"
    /\ start_error' = "AttributeError"
    /\ UNCHANGED <<shared, fs, is_running, server_socket, handlers, direct>>

\* HTTPServer.stop, called from outside while start runs.
Stop ==
    /\ lpc \in {"test", "accept"}
    /\ is_running
    /\ is_running' = FALSE
    /\ server_socket' = "none"
    /\ UNCHANGED <<shared, fs, lpc, start_error, handlers, direct>>

\* KeyboardInterrupt in start.
Interrupt ==
    /\ lpc \in {"test", "accept"}
    /\ lpc' = "finally"
    /\ UNCHANGED <<shared, fs, is_running, server_socket, start_error, handlers, direct>>

\* finally: self.stop()
StartFinally ==
    /\ lpc = "finally"
    /\ is_running' = FALSE
    /\ server_socket' = "none"
    /\ lpc' = "returned"
    /\ UNCHANGED <<shared, fs, start_error, handlers, direct>>

\* ------------------------------------------------------ Connection Handler
\* HTTPServer._handle_client_connection.  pc: "unborn", "settimeout" (line
\* 45), "recv" (line 57), "respond" (line 102), "sent" (line 113), "finally"
\* (line 117), "done" (the thread has ended).

\* client_socket.settimeout(SOCKET_TIMEOUT), before the try: an OSError ends
\* the thread there.
SetTimeout(c) ==
    /\ pc[c] = "settimeout"
    /\ \/ /\ pc' = [pc EXCEPT ![c] = "recv"]
          /\ UNCHANGED fault
       \/ /\ pc' = [pc EXCEPT ![c] = "done"]
          /\ fault' = [fault EXCEPT ![c] = "settimeout"]
    /\ UNCHANGED <<shared, fs, listener, direct,
                   sock, request_bytes, request, response, close_connection, wire, served,
                   answered>>

\* Mutant: a lookup takes the first route out of the table.
RecvRequest_ConsumesRoute(c, buffers) ==
    /\ pc[c] = "recv"
    /\ served[c] < MaxRequests
    /\ \E b \in buffers, io \in IoOutcomes :
         LET cycle == ProcessRequest(b, routes, default_handler, directory, fs, io) IN
         /\ request_bytes' = [request_bytes EXCEPT ![c] = b]
         /\ request' = [request EXCEPT ![c] = cycle.request]
         /\ response' = [response EXCEPT ![c] = cycle.response]
         /\ close_connection' = [close_connection EXCEPT ![c] = cycle.close_connection]
         /\ fault' = [fault EXCEPT ![c] = cycle.fault]
         /\ fs' = cycle.fs
    /\ routes' = IF routes = <<>> THEN routes ELSE Tail(routes)
    /\ served' = [served EXCEPT ![c] = @ + 1]
    /\ pc' = [pc EXCEPT ![c] = "respond"]
    /\ UNCHANGED <<default_handler, directory, listener, direct, sock, wire, answered>>

\* recv returns one of the buffers; it is parsed, routed and handled (lines
\* 57-99).
RecvRequest(c, buffers) ==
    /\ pc[c] = "recv"
    /\ served[c] < MaxRequests
    /\ \E b \in buffers, io \in IoOutcomes :
         LET cycle == ProcessRequest(b, routes, default_handler, directory, fs, io) IN
         /\ request_bytes' = [request_bytes EXCEPT ![c] = b]
         /\ request' = [request EXCEPT ![c] = cycle.request]
         /\ response' = [response EXCEPT ![c] = cycle.response]
         /\ close_connection' = [close_connection EXCEPT ![c] = cycle.close_connection]
         /\ fault' = [fault EXCEPT ![c] = cycle.fault]
         /\ fs' = cycle.fs
    /\ served' = [served EXCEPT ![c] = @ + 1]
    /\ pc' = [pc EXCEPT ![c] = "respond"]
    /\ UNCHANGED <<shared, listener, direct, sock, wire, answered>>

\* recv returns b"": the peer closed (lines 58-60).
RecvEmpty(c) ==
    /\ pc[c] = "recv"
    /\ fault' = [fault EXCEPT ![c] = "eof"]
    /\ pc' = [pc EXCEPT ![c] = "finally"]
    /\ UNCHANGED <<shared, fs, listener, direct,
                   sock, request_bytes, request, response, close_connection, wire, served,
                   answered>>

\* Mutant: the three except clauses of lines 76-87 are gone, and the transport
\* error of recv falls to except Exception, which answers it.
RecvError_Answers(c) ==
    /\ pc[c] = "recv"
    /\ \E e \in TransportErrors :
         /\ fault' = [fault EXCEPT ![c] = e]
         /\ sock' = [sock EXCEPT ![c].peer = IF e = "timeout" THEN @ ELSE "gone"]
    /\ response' = [response EXCEPT ![c] = UnexpectedResponse]
    /\ close_connection' = [close_connection EXCEPT ![c] = TRUE]
    /\ pc' = [pc EXCEPT ![c] = "respond"]
    /\ UNCHANGED <<shared, fs, listener, direct,
                   request_bytes, request, wire, served, answered>>

\* Mutant: a timeout of the read is noted and the read is tried again.
RecvError_RetriesOnTimeout(c) ==
    /\ pc[c] = "recv"
    /\ \E e \in TransportErrors :
         /\ fault' = [fault EXCEPT ![c] = e]
         /\ sock' = [sock EXCEPT ![c].peer = IF e = "timeout" THEN @ ELSE "gone"]
         /\ pc' = [pc EXCEPT ![c] = IF e = "timeout" THEN "recv" ELSE "finally"]
    /\ close_connection' = [close_connection EXCEPT ![c] = TRUE]
    /\ UNCHANGED <<shared, fs, listener, direct,
                   request_bytes, request, response, wire, served, answered>>

\* recv raises socket.timeout, ConnectionResetError or BrokenPipeError (lines 76-87).
RecvError(c) ==
    /\ pc[c] = "recv"
    /\ \E e \in TransportErrors :
         /\ fault' = [fault EXCEPT ![c] = e]
         /\ sock' = [sock EXCEPT ![c].peer = IF e = "timeout" THEN @ ELSE "gone"]
    /\ close_connection' = [close_connection EXCEPT ![c] = TRUE]
    /\ pc' = [pc EXCEPT ![c] = "finally"]
    /\ UNCHANGED <<shared, fs, listener, direct,
                   request_bytes, request, response, wire, served, answered>>

\* Mutant: the response is made but never sent.
Respond_Skips(c) ==
    /\ pc[c] = "respond"
    /\ response' = [response EXCEPT ![c] = ToBytesSelf(@, close_connection[c])]
    /\ pc' = [pc EXCEPT ![c] = "sent"]
    /\ UNCHANGED <<shared, fs, listener, direct, wire, answered,
                   sock, request_bytes, request, close_connection, fault, served>>

\* if response: to_bytes and sendall (lines 102-105); sendall succeeds.
Respond(c) ==
    /\ pc[c] = "respond"
    /\ response' = [response EXCEPT ![c] = ToBytesSelf(@, close_connection[c])]
    /\ wire' = [wire EXCEPT ![c] =
                  [written |-> "full", bytes |-> to_bytes(response[c], close_connection[c])]]
    /\ answered' = [answered EXCEPT ![c] = @ + 1]
    /\ pc' = [pc EXCEPT ![c] = "sent"]
    /\ UNCHANGED <<shared, fs, listener, direct,
                   sock, request_bytes, request, close_connection, fault, served>>

\* Mutant: the exception of sendall reaches HTTPServer.start and ends its loop.
RespondError_Propagates(c) ==
    /\ pc[c] = "respond"
    /\ response' = [response EXCEPT ![c] = ToBytesSelf(@, close_connection[c])]
    /\ \E e \in TransportErrors :
         sock' = [sock EXCEPT ![c].peer = IF e = "timeout" THEN @ ELSE "gone"]
    /\ wire' = [wire EXCEPT ![c].written = "partial"]
    /\ fault' = [fault EXCEPT ![c] = "send"]
    /\ pc' = [pc EXCEPT ![c] = "finally"]
    /\ lpc' = "finally"
    /\ UNCHANGED <<shared, fs, is_running, server_socket, start_error, direct,
                   request_bytes, request, close_connection, served, answered>>

\* sendall raises: the exception leaves the loop through the finally clause;
\* "partial" stands for none or a part of the response written.
RespondError(c) ==
    /\ pc[c] = "respond"
    /\ response' = [response EXCEPT ![c] = ToBytesSelf(@, close_connection[c])]
    /\ \E e \in TransportErrors :
         sock' = [sock EXCEPT ![c].peer = IF e = "timeout" THEN @ ELSE "gone"]
    /\ wire' = [wire EXCEPT ![c].written = "partial"]
    /\ fault' = [fault EXCEPT ![c] = "send"]
    /\ pc' = [pc EXCEPT ![c] = "finally"]
    /\ UNCHANGED <<shared, fs, listener, direct,
                   request_bytes, request, close_connection, served, answered>>

\* if close_connection: break (lines 113-115), else the next turn of the loop
\* (lines 51-53).
NextCycle(c) ==
    /\ pc[c] = "sent"
    /\ IF close_connection[c]
         THEN /\ pc' = [pc EXCEPT ![c] = "finally"]
              /\ UNCHANGED <<request_bytes, request, response, close_connection, wire, fault>>
         ELSE /\ pc' = [pc EXCEPT ![c] = "recv"]
              /\ request_bytes' = [request_bytes EXCEPT ![c] = NoBytes]
              /\ request' = [request EXCEPT ![c] = NoRequest]
              /\ response' = [response EXCEPT ![c] = NoResponse]
              /\ close_connection' = [close_connection EXCEPT ![c] = FALSE]
              /\ wire' = [wire EXCEPT ![c] = NoWire]
              /\ fault' = [fault EXCEPT ![c] = "none"]
    /\ UNCHANGED <<shared, fs, listener, direct, sock, served, answered>>

\* finally: shutdown(SHUT_RDWR), whose OSError on a connection that is gone
\* is ignored, and close() (lines 117-124); the thread ends and its locals
\* with it.
Finally(c) ==
    /\ pc[c] = "finally"
    /\ sock' = [sock EXCEPT ![c].shutdown = (sock[c].peer = "up"),
                            ![c].fd = "closed"]
    /\ pc' = [pc EXCEPT ![c] = "done"]
    /\ request_bytes' = [request_bytes EXCEPT ![c] = NoBytes]
    /\ request' = [request EXCEPT ![c] = NoRequest]
    /\ response' = [response EXCEPT ![c] = NoResponse]
    /\ close_connection' = [close_connection EXCEPT ![c] = FALSE]
    /\ wire' = [wire EXCEPT ![c] = NoWire]
    /\ UNCHANGED <<shared, fs, listener, direct, fault, served, answered>>

\* One step of connection c's handler thread, its peer sending from buffers.
Step(c, buffers) ==
    \/ SetTimeout(c)
    \/ RecvRequest(c, buffers)
    \/ RecvEmpty(c)
    \/ RecvError(c)
    \/ Respond(c)
    \/ RespondError(c)
    \/ NextCycle(c)
    \/ Finally(c)

\* One step of HTTPServer.start or of a caller of HTTPServer.stop.
ListenerStep(conns) ==
    \/ StartServer
    \/ LoopTest
    \/ \E c \in conns : Accept(c)
    \/ AcceptOSError
    \/ AcceptOnNone
    \/ Stop
    \/ Interrupt
    \/ StartFinally

\* One client, sending any of the buffers.
Next ==
    \/ ListenerStep({"A"})
    \/ Step("A", Buffers)

Spec == Init /\ [][Next]_vars

\* The read of connection c ends with socket.timeout: SOCKET_TIMEOUT seconds
\* have passed without a byte.
RecvTimeout(c) == RecvError(c) /\ fault'[c] = "timeout"

\* One client under a fair scheduler: the handler thread takes each step of its
\* own that stays possible, and the timer of a read that stays blocked runs
\* out. Nothing is asked of the peer or of the listener.
SpecTimeout ==
    /\ Init
    /\ [][Next]_vars
    /\ WF_vars(SetTimeout("A"))
    /\ WF_vars(RecvTimeout("A"))
    /\ WF_vars(Respond("A"))
    /\ WF_vars(NextCycle("A"))
    /\ WF_vars(Finally("A"))

\* Two clients at once, each sending any of a few buffers.
FewBuffers ==
    {Bytes(<<"GET", <<"/", "echo", "/", "abc">>, "HTTP/1.1">>, <<HostLine>>, ""),
     Bytes(<<"GET", <<"/", "files", "/", "a.txt">>, "HTTP/1.1">>,
           <<<<"Connection", " close">>>>, ""),
     Bytes(<<"POST", <<"/", "files", "/", "a.txt">>, "HTTP/1.1">>, <<HostLine>>, "hello"),
     Bytes(<<"POST", <<"/", "files", "/", NUL>>, "HTTP/1.1">>, <<>>, "hello"),
     Bytes(<<"BREW", <<"/">>, "HTTP/1.1">>, <<>>, "")}

NextTwo ==
    \/ ListenerStep(Conns)
    \/ \E c \in Conns : Step(c, FewBuffers)

SpecTwo == Init /\ [][NextTwo]_vars

\* ---------------------------------------------------------- the Router alone
\* Routes are registered one by one, then requests are resolved.

MaxRoutes == 3

RouteMethods == {"GET", "POST"}
RoutePatterns == {<<"/", "x">>, <<"/", DotStar>>}
RouteHandlers == {"h1", "h2"}
LookupMethods == {"GET", "POST", "PUT"}
LookupPaths == {<<"/", "x">>, <<"/", "y">>, <<"/", "x", NL>>}

AddRoute(method, path_pattern, handler) ==
    /\ Len(routes) < MaxRoutes
    /\ resolved = NoLookup
    /\ routes' = add_route(routes, method, path_pattern, handler)
    /\ UNCHANGED <<default_handler, directory, fs, listener, handlers, direct>>

FindHandler(method, path) ==
    LET found == find_handler(routes, default_handler,
                              [NoRequest EXCEPT !.method = method, !.path = path])
    IN /\ resolved' = [method |-> method, path |-> path, kind |-> found.kind,
                       handler |-> found.handler, allowed |-> found.allowed]
       /\ UNCHANGED <<shared, fs, listener, handlers, called, posting>>

NextRouter ==
    \/ \E m \in RouteMethods, p \in RoutePatterns, h \in RouteHandlers : AddRoute(m, p, h)
    \/ \E m \in LookupMethods, p \in LookupPaths : FindHandler(m, p)

InitRouter == routes = <<>> /\ Constructed

SpecRouter == InitRouter /\ [][NextRouter]_vars

\* ------------------------------------------------- the file handlers alone
\* handle_file_get and handle_file_post are called one after the other, for
\* any of a few directories, request paths and bodies, on the file system the
\* earlier calls have left.

\* directory: None, the configured root, and the same root given relative to
\* the working directory.
FileDirectories ==
    {<<>>, ConfiguredDirectory, <<"..", "/", "srv", "/", "data">>}

\* Request paths under /files/: plain, nested, with .. inside the root, with
\* .. out of the root, into the sibling data-private, with an absolute rest,
\* and the root directory itself.
FilePaths ==
    {<<"/", "files", "/", "a.txt">>,
     <<"/", "files", "/", "sub", "/", "b.txt">>,
     <<"/", "files", "/", "sub", "/", "..", "/", "a.txt">>,
     <<"/", "files", "/", "..", "/", "..", "/", "etc", "/", "passwd">>,
     <<"/", "files", "/", "..", "/", "data-private", "/", "x">>,
     <<"/", "files", "/", "/", "etc", "/", "passwd">>,
     <<"/", "files", "/">>}

FileBodies == {"", "hello"}

FileRequest(method, path, body) ==
    [NoRequest EXCEPT !.method = method, !.path = path, !.protocol = "HTTP/1.1",
                      !.body = body]

\* What is kept of a call made on its own.
Called(op, req, dir, io, out) ==
    [op |-> op, request |-> req, directory |-> dir, io |-> io, kind |-> out.kind,
     response |-> out.response, error |-> out.error]

CallFileGet(dir, path, io) ==
    LET req == FileRequest("GET", path, "")
        out == handle_file_get(req, dir, fs, io)
    IN /\ called' = Called("handle_file_get", req, dir, io, out)
       /\ fs' = out.fs
       /\ UNCHANGED <<shared, listener, handlers, resolved, posting>>

CallFilePost(dir, path, body, io) ==
    LET req == FileRequest("POST", path, body)
        out == handle_file_post(req, dir, fs, io)
    IN /\ called' = Called("handle_file_post", req, dir, io, out)
       /\ fs' = out.fs
       /\ UNCHANGED <<shared, listener, handlers, resolved, posting>>

NextFiles ==
    \/ \E dir \in FileDirectories, path \in FilePaths, io \in IoOutcomes :
           CallFileGet(dir, path, io)
    \/ \E dir \in FileDirectories, path \in FilePaths, body \in FileBodies,
          io \in IoOutcomes :
           CallFilePost(dir, path, body, io)

SpecFiles == Init /\ [][NextFiles]_vars

\* ------------------------------------------- handle_file_post step by step
\* Two handler threads run handle_file_post at once.  posting[c].at is where
\* thread c is: "" (not called), "open" (line 93, before open), "write" (line
\* 94, the file is open), "close" (the end of the with block), "returned".

WriterPaths == {<<"/", "files", "/", "a.txt">>, <<"/", "files", "/", "sub", "/", "..", "/", "a.txt">>}

WriterBodies == {"", "bye", "hello"}

\* text[n:] for the file contents the writers can leave.
DropText(text, n) ==
    IF n = 0 THEN text
    ELSE IF n >= Len(text) THEN ""
    ELSE CASE text = "hello" /\ n = 3 -> "lo"
           [] text = "byelo" /\ n = 3 -> "lo"

\* The file after a write of data at offset 0 of a descriptor opened before:
\* the bytes beyond the data stay.
WriteAtStart(old, data) == data \o DropText(old, Len(data))

\* Lines 72-92: the checks pass, the body is encoded, os.makedirs has run.
PostStart(c, path, body) ==
    LET full_file_path == AbsPath(PathJoin(directory, DropChars(path, Len("/files/")))) IN
    /\ posting[c].at = ""
    /\ directory # <<>>
    /\ StartsWith(full_file_path, AbsPath(directory))
    /\ MakeDirs(fs, DirName(full_file_path)).ok
    /\ fs' = MakeDirs(fs, DirName(full_file_path)).fs
    /\ posting' = [posting EXCEPT ![c] =
                      [at |-> "open", path |-> full_file_path, body |-> body, status |-> 0]]
    /\ UNCHANGED <<shared, listener, handlers, resolved, called>>

\* open(full_file_path, "wb"): the file is made or truncated.
PostOpen(c) ==
    /\ posting[c].at = "open"
    /\ fs' = [fs EXCEPT ![posting[c].path] = FileNode("")]
    /\ posting' = [posting EXCEPT ![c].at = "write"]
    /\ UNCHANGED <<shared, listener, handlers, resolved, called>>

\* f.write(body_bytes): the bytes go to the buffer of the file object.
PostWrite(c) ==
    /\ posting[c].at = "write"
    /\ posting' = [posting EXCEPT ![c].at = "close"]
    /\ UNCHANGED <<shared, fs, listener, handlers, resolved, called>>

\* The with block ends: the buffer is written at the descriptor's offset, 0,
\* and the file is closed.
PostClose(c) ==
    /\ posting[c].at = "close"
    /\ fs' = [fs EXCEPT ![posting[c].path] =
                 FileNode(WriteAtStart(fs[posting[c].path].data, posting[c].body))]
    /\ posting' = [posting EXCEPT ![c].at = "returning"]
    /\ UNCHANGED <<shared, listener, handlers, resolved, called>>

\* return HTTPResponse(status_code=HTTPStatus.CREATED, body=b"")
PostReturn(c) ==
    /\ posting[c].at = "returning"
    /\ posting' = [posting EXCEPT ![c].at = "returned", ![c].status = CREATED]
    /\ UNCHANGED <<shared, fs, listener, handlers, resolved, called>>

NextWriters ==
    \E c \in Conns :
        \/ \E path \in WriterPaths, body \in WriterBodies : PostStart(c, path, body)
        \/ PostOpen(c)
        \/ PostWrite(c)
        \/ PostClose(c)
        \/ PostReturn(c)

SpecWriters == Init /\ [][NextWriters]_vars

\* ------------------------------------------------- the responses alone
\* The handlers that answer from the request alone and the error path are
\* called for any of a few requests, and the response is serialised.

EchoTexts == {"", "abc", "café", "hello"}

\* Accept-Encoding values; "-" is for a request without the header.
AcceptEncodings ==
    {"-", "gzip", "gzip, deflate", "deflate,gzip", "deflate, gzip", "gzipx", "GZIP", "deflate"}

UserAgents == {"-", "curl/8", "café"}

ErrorMessages == {"", "Malformed header line", "File not found: café"}

\* A request with one header, or none for the value "-".
HeaderRequest(method, path, name, value) ==
    [NoRequest EXCEPT !.method = method, !.path = path, !.protocol = "HTTP/1.1",
                      !.headers = IF value = "-" THEN <<>>
                                  ELSE [k \in {Lower(name)} |-> value]]

\* What is kept of a response made and serialised on its own.
Serialised(op, req, out, close) ==
    [op |-> op, request |-> req, directory |-> <<>>, io |-> "ok", kind |-> out.kind,
     response |-> out.response, error |-> out.error, close_connection |-> close,
     bytes |-> to_bytes(out.response, close)]

CallEcho(text, accept, close) ==
    LET req == HeaderRequest("GET", <<"/", "echo", "/", text>>, ACCEPT_ENCODING, accept)
    IN /\ called' = Serialised("handle_echo", req, handle_echo(req, <<>>, fs, "ok"), close)
       /\ UNCHANGED <<shared, fs, listener, handlers, resolved, posting>>

CallUserAgent(agent, close) ==
    LET req == HeaderRequest("GET", <<"/", "user-agent">>, USER_AGENT, agent)
    IN /\ called' = Serialised("handle_user_agent", req,
                               handle_user_agent(req, <<>>, fs, "ok"), close)
       /\ UNCHANGED <<shared, fs, listener, handlers, resolved, posting>>

CallNotFound(close) ==
    LET req == HeaderRequest("GET", <<"/", "nope">>, USER_AGENT, "-")
    IN /\ called' = Serialised("handle_not_found", req,
                               handle_not_found(req, <<>>, fs, "ok"), close)
       /\ UNCHANGED <<shared, fs, listener, handlers, resolved, posting>>

\* except HTTPException as e: the response of the error path.
CallErrorPath(status, message, close) ==
    LET e == HTTPException(status, message)
    IN /\ called' = Serialised("error", NoRequest, Return(ErrorResponse(e), fs), close)
       /\ UNCHANGED <<shared, fs, listener, handlers, resolved, posting>>

\* The members of HTTPStatus.
StatusCodes ==
    {100, 101, 102, 200, 201, 202, 204, 301, 302, 303, 304, 400, 401, 403, 404, 405, 408,
     409, 411, 413, 414, 415, 429, 500, 501, 502, 503, 504, 505}

\* HTTPResponse(status_code=status, status_text=text), serialised; "" is for no
\* text given.
CallBuild(status, text, close) ==
    LET out == Return(HTTPResponse(status, <<>>, NoBody, text), fs)
    IN /\ called' = Serialised("HTTPResponse", NoRequest, out, close)
       /\ UNCHANGED <<shared, fs, listener, handlers, resolved, posting>>

\* One response serialised twice: to_bytes(first), then to_bytes(second) on
\* the object the first call left.
CallToBytesTwice(status, text, first, second) ==
    LET built == HTTPResponse(status, <<<<CONTENT_TYPE, TEXT_PLAIN>>>>, Body(text), "")
        once == ToBytesSelf(built, first)
        twice == ToBytesSelf(once, second)
    IN /\ called' = [op |-> "to_bytes", request |-> NoRequest, directory |-> <<>>,
                     io |-> "ok", kind |-> "response", response |-> built,
                     error |-> UnexpectedError, close_connection |-> second,
                     bytes |-> to_bytes(once, second), first |-> first,
                     first_bytes |-> to_bytes(built, first), after |-> twice]
       /\ UNCHANGED <<shared, fs, listener, handlers, resolved, posting>>

NextResponses ==
    \/ \E text \in EchoTexts, accept \in AcceptEncodings, close \in BOOLEAN :
           CallEcho(text, accept, close)
    \/ \E agent \in UserAgents, close \in BOOLEAN : CallUserAgent(agent, close)
    \/ \E close \in BOOLEAN : CallNotFound(close)
    \/ \E status \in {BAD_REQUEST, FORBIDDEN, NOT_FOUND, METHOD_NOT_ALLOWED,
                      INTERNAL_SERVER_ERROR},
          message \in ErrorMessages, close \in BOOLEAN :
           CallErrorPath(status, message, close)
    \/ \E status \in StatusCodes, text \in {"", "Fine"}, close \in BOOLEAN :
           CallBuild(status, text, close)
    \/ \E status \in {OK, NOT_FOUND}, text \in {"", "abc"}, first \in BOOLEAN,
          second \in BOOLEAN :
           CallToBytesTwice(status, text, first, second)

SpecResponses == Init /\ [][NextResponses]_vars

\* ---------------------------------------------------- the parser alone
\* HTTPRequest.from_bytes is called on start lines of one to four tokens, as
\* start_line.split(" ") would cut them; an empty token stands between two
\* spaces, or after the last one.

MethodTokens == {"", "GET", "post", "BREW"}

PathTokens == {<<>>, <<"/">>, <<"/", "echo", "/", "abc">>}

ProtocolTokens == {"", "HTTP/1.1", "extra"}

StartLines ==
    {<<m>> : m \in MethodTokens}
    \cup {<<m, p>> : m \in MethodTokens, p \in PathTokens}
    \cup {<<m, p, v>> : m \in MethodTokens, p \in PathTokens, v \in ProtocolTokens}
    \cup {<<m, p, v, w>> : m \in MethodTokens, p \in PathTokens,
                           v \in ProtocolTokens, w \in ProtocolTokens}

\* The header lines of the inputs, each split on every ":"; the second and
\* the last have no colon.
HeaderLines ==
    {HostLine, <<"garbage">>, <<"Connection", " close">>, <<"CONNECTION", " keep-alive">>,
     <<" Connection", "close ">>, <<" ">>}

MethodSpellings == {"GET", "get", "post", "PUT", "BREW", "brew"}

\* Up to two header lines.
LineLists ==
    {<<>>} \cup {<<l>> : l \in HeaderLines} \cup {<<l, k>> : l \in HeaderLines, k \in HeaderLines}

\* What is kept of one call of from_bytes.
Parsed(buffer, out) ==
    [op |-> "from_bytes", request |-> out.request, directory |-> <<>>, io |-> "",
     kind |-> IF out.ok THEN "return" ELSE "raise", response |-> NoResponse,
     error |-> out.error, start |-> buffer.start, lines |-> buffer.lines,
     body |-> buffer.body]

CallFromBytes(start) ==
    LET buffer == Bytes(start, <<HostLine>>, "")
    IN /\ called' = Parsed(buffer, from_bytes(buffer))
       /\ UNCHANGED <<shared, fs, listener, handlers, resolved, posting>>

\* A start line of three tokens, header lines, a blank line and a body.
CallFromBytesWithBody(method, path, lines, body) ==
    LET buffer == Bytes(<<method, path, "HTTP/1.1">>, lines, body)
    IN /\ called' = Parsed(buffer, from_bytes(buffer))
       /\ UNCHANGED <<shared, fs, listener, handlers, resolved, posting>>

\* No blank line: the text ends with the CRLF of the last header line, which
\* leaves an empty last line and no body.
CallFromBytesNoBlankLine(method, path, lines) ==
    LET buffer == Bytes(<<method, path, "HTTP/1.1">>, lines \o <<<<"">>>>, "")
    IN /\ called' = Parsed(buffer, from_bytes(buffer))
       /\ UNCHANGED <<shared, fs, listener, handlers, resolved, posting>>

NextParser ==
    \/ \E start \in StartLines : CallFromBytes(start)
    \/ \E method \in MethodSpellings, lines \in LineLists, body \in {"", "hello"} :
           CallFromBytesWithBody(method, <<"/", "echo", "/", "abc">>, lines, body)
    \/ \E method \in MethodSpellings, lines \in LineLists :
           CallFromBytesNoBlankLine(method, <<"/">>, lines)

SpecParser == Init /\ [][NextParser]_vars

\* ------------------------------------------------------------- the claims
\* What the claims speak of, read off the inputs and the socket and not off
\* the handler's own variables.

\* The buffer holds a header line Connection: close, in any letter case.
AskedClose(b) ==
    \E i \in DOMAIN b.lines :
        /\ Len(b.lines[i]) >= 2
        /\ Lower(Strip(b.lines[i][1])) = "connection"
        /\ Lower(Strip(Join(Tail(b.lines[i]), ":"))) = "close"

\* The status code and the Connection: close header of what was written.
WireStatus(c) == wire[c].bytes.status_line[2]
WireClose(c) == \E i \in DOMAIN wire[c].bytes.headers :
                    wire[c].bytes.headers[i] = <<"Connection", "close">>

\* The handler of c is between a received buffer and the end of its cycle.
InCycle(c) == pc[c] \in {"respond", "sent"}

\* The handler of c takes the step.
Leaves(c) == pc'[c] # pc[c]

\* The statuses that answer buffer b, whatever the file system holds.
ExpectedStatus(b) ==
    IF b \in Malformed THEN {400}
    ELSE LET method == Upper(b.start[1])
             path == PathText(b.start[2])
         IN CASE method = "GET" /\ path \in {"/", "/echo/abc", "/user-agent"} -> {200}
              [] method = "PUT" /\ path = "/echo/x" -> {405}
              [] method = "GET" /\ path = "/nope" -> {404}
              [] method = "GET" /\ path = "/files/../../etc/passwd" -> {403}
              [] method = "GET" /\ path = "/files/a.txt" -> {200, 404, 500}
              [] method = "POST" /\ path = "/files/a.txt" -> {201, 500}
              [] method = "POST" /\ path = "/files/" \o NUL -> {500}
              [] OTHER -> {}

C2_ServerErrorCloses ==
    [][\A c \in Conns :
          /\ (InCycle(c) /\ fault[c] = "unexpected") => response[c].status_code = 500
          /\ (InCycle(c) /\ fault[c] \in {"route", "handler", "unexpected"}
                /\ response[c].status_code >= 500) =>
                 /\ close_connection[c]
                 /\ (pc[c] = "sent" =>
                        /\ WireStatus(c) = response[c].status_code
                        /\ WireClose(c)
                        /\ (Leaves(c) => pc'[c] = "finally"))
          /\ (pc[c] = "finally" /\ Leaves(c)) => sock'[c].fd = "closed"]_vars

C2_Witness ==
    \E c \in Conns :
        /\ pc[c] = "sent"
        /\ fault[c] = "handler"
        /\ ~AskedClose(request_bytes[c])
        /\ WireStatus(c) = 500
        /\ WireClose(c)

\* C3: in every cycle that ends in a 4xx response, close_connection is true
\* only if the request carried Connection: close; when it did not, the
\* response carries no Connection: close and the handler goes back to the read
\* on the same, still open socket.
C3_ClientErrorKeepsAlive ==
    [][\A c \in Conns :
          (InCycle(c) /\ response[c].status_code \in 400..499) =>
              /\ close_connection[c] => AskedClose(request_bytes[c])
              /\ (pc[c] = "sent" /\ ~AskedClose(request_bytes[c])) =>
                     /\ WireStatus(c) = response[c].status_code
                     /\ ~WireClose(c)
                     /\ (Leaves(c) => pc'[c] = "recv" /\ sock'[c].fd = "open")]_vars

C3_Witness ==
    \E c \in Conns :
        /\ pc[c] = "sent"
        /\ served[c] = 2
        /\ WireStatus(c) = 405
        /\ ~WireClose(c)

\* C4: when the read returns zero bytes, times out, or meets a connection
\* reset or a broken pipe, the handler goes from the read straight to the
\* closing of the socket: no response is made, nothing is written to the
\* socket in that cycle, and the socket is closed next.
C4_TransportFailureWritesNothing ==
    [][\A c \in Conns :
          /\ (pc[c] = "recv" /\ Leaves(c) /\ request_bytes'[c] = NoBytes) =>
                 /\ pc'[c] = "finally"
                 /\ fault'[c] \in {"eof"} \cup TransportErrors
                 /\ response'[c] = NoResponse
                 /\ wire'[c] = NoWire
                 /\ answered'[c] = answered[c]
          /\ (pc[c] = "finally" /\ fault[c] \in {"eof"} \cup TransportErrors /\ Leaves(c)) =>
                 /\ answered'[c] = answered[c]
                 /\ sock'[c].fd = "closed"]_vars

C4_Witness ==
    \E c \in Conns :
        /\ pc[c] = "done"
        /\ fault[c] = "timeout"
        /\ served[c] = 1
        /\ answered[c] = 1
        /\ sock[c].fd = "closed"

\* C5: a request that parses and is handled without error keeps the
\* connection open when it carries no Connection: close; a request that
\* parses and carries Connection: close, in any letter case, has
\* close_connection true.  A response written carries Connection: close
\* exactly when close_connection is true, and after it the handler closes the
\* socket if it does and reads again on the same open socket if it does not.
C5_KeepAlive ==
    [][\A c \in Conns :
          InCycle(c) =>
              /\ (fault[c] = "none" /\ ~AskedClose(request_bytes[c])) => ~close_connection[c]
              /\ (request_bytes[c] \in WellFormed /\ AskedClose(request_bytes[c])) =>
                     close_connection[c]
              /\ (pc[c] = "sent" =>
                     /\ WireClose(c) <=> close_connection[c]
                     /\ (Leaves(c) =>
                            IF WireClose(c)
                              THEN pc'[c] = "finally"
                              ELSE pc'[c] = "recv" /\ sock'[c].fd = "open"
                                   /\ sock'[c] = sock[c]))]_vars

C5_Witness ==
    \E c \in Conns :
        /\ pc[c] = "sent"
        /\ served[c] = 2
        /\ answered[c] = 2
        /\ fault[c] = "none"
        /\ \E i \in DOMAIN request_bytes[c].lines :
               request_bytes[c].lines[i] = <<"CONNECTION", " Close">>
        /\ WireStatus(c) = 200
        /\ WireClose(c)

\* C6: on one connection a buffer is read only when every earlier one has
\* been answered in full and nothing of a response is on the way; a buffer
\* read is followed by the write of one response before anything else, that
\* response is the one made for the buffer just read, and the handler reads
\* again only after that response is written in full.
C6_StrictlySequential ==
    [][\A c \in Conns :
          /\ pc[c] = "recv" => answered[c] = served[c] /\ wire[c] = NoWire
          /\ pc[c] = "respond" =>
                 /\ served[c] = answered[c] + 1
                 /\ wire[c].written = "none"
                 /\ response[c].status_code \in ExpectedStatus(request_bytes[c])
          /\ pc[c] = "sent" =>
                 /\ answered[c] = served[c]
                 /\ wire[c].written = "full"
                 /\ wire[c].bytes = to_bytes(response[c], close_connection[c])
                 /\ WireStatus(c) \in ExpectedStatus(request_bytes[c])
          /\ served'[c] # served[c] =>
                 pc[c] = "recv" /\ pc'[c] = "respond" /\ served'[c] = served[c] + 1
          /\ answered'[c] # answered[c] =>
                 pc[c] = "respond" /\ pc'[c] = "sent" /\ answered'[c] = answered[c] + 1
          /\ (pc[c] = "respond" /\ Leaves(c)) => pc'[c] \in {"sent", "finally"}
          /\ (pc'[c] = "recv" /\ Leaves(c)) =>
                 \/ pc[c] = "settimeout"
                 \/ pc[c] = "sent" /\ wire[c].written = "full"]_vars

C6_Witness ==
    \E c \in Conns :
        /\ pc[c] = "sent"
        /\ served[c] = 2
        /\ answered[c] = 2
        /\ request_bytes[c] \in WellFormed
        /\ PathText(request_bytes[c].start[2]) = "/echo/abc"
        /\ wire[c].written = "full"
        /\ wire[c].bytes.body = "abc"

\* C7 as stated: whenever the handler of a connection has ended, its socket
\* is closed, and shut down in both directions unless the peer was already
\* gone.
C7_EveryEndClosesSocket ==
    \A c \in Conns :
        pc[c] = "done" =>
            /\ sock[c].fd = "closed"
            /\ sock[c].shutdown \/ sock[c].peer = "gone"

\* The faults that are answered, and the reason phrase of each status.
ProtocolFaults == {"parse", "route", "handler", "unexpected"}

ReasonPhrase(code) ==
    CASE code = 200 -> "OK"
      [] code = 201 -> "Created"
      [] code = 400 -> "Bad Request"
      [] code = 403 -> "Forbidden"
      [] code = 404 -> "Not Found"
      [] code = 405 -> "Method Not Allowed"
      [] code = 500 -> "Internal Server Error"
      [] OTHER -> "?"

\* A status line of HTTP/1.1 with the status's reason phrase, no header name
\* twice, and a Content-Length that is the length of the body.
WellFormedWire(b) ==
    /\ b.status_line[1] = "HTTP/1.1"
    /\ b.status_line[3] = ReasonPhrase(b.status_line[2])
    /\ \A i, j \in DOMAIN b.headers : b.headers[i][1] = b.headers[j][1] => i = j
    /\ \E i \in DOMAIN b.headers :
           b.headers[i] = <<"Content-Length", ToString(Len(b.body))>>

\* C8: in every cycle in which parsing, routing or the handler fails with
\* anything but a timeout, a reset or a broken pipe, the response made has the
\* status mapped to the failure (400 for a parse error, 403, 404, 405, and 500
\* for InternalServerError and for an unexpected exception), and once the
\* write has succeeded exactly one response has been written for the buffer:
\* a well-formed one with that status and the failure's message as its body.
C8_FailureAnswered ==
    \A c \in Conns :
        (InCycle(c) /\ fault[c] \in ProtocolFaults) =>
            /\ response[c].status_code
                   \in ExpectedStatus(request_bytes[c]) \cap {400, 403, 404, 405, 500}
            /\ fault[c] = "parse" => response[c].status_code = 400
            /\ fault[c] = "unexpected" => response[c].status_code = 500
            /\ response[c].body.present
            /\ pc[c] = "respond" => wire[c].written = "none" /\ served[c] = answered[c] + 1
            /\ pc[c] = "sent" =>
                   /\ wire[c].written = "full"
                   /\ answered[c] = served[c]
                   /\ WellFormedWire(wire[c].bytes)
                   /\ WireStatus(c) = response[c].status_code
                   /\ wire[c].bytes.body = response[c].body.data

C8_Witness ==
    \E c \in Conns :
        /\ pc[c] = "sent"
        /\ fault[c] = "unexpected"
        /\ WireStatus(c) = 500
        /\ wire[c].bytes.body = "Internal Server Error"
        /\ WellFormedWire(wire[c].bytes)

\* What belongs to the handler of connection c.
Own(c) ==
    <<pc[c], sock[c], request_bytes[c], request[c], response[c], close_connection[c],
      wire[c], fault[c], served[c], answered[c]>>

\* C9: a step of the handler of one connection, a fault or not, changes
\* nothing that belongs to another connection, to the Listener or to the
\* configuration: the other handlers stay where they are in their cycles with
\* their sockets as they were, and HTTPServer.start stays where it is in its
\* loop, running if it was running, with its listening socket as it was.
C9_FaultIsolation ==
    [][\A a \in Conns :
          (pc[a] # "unborn" /\ Own(a)' # Own(a)) =>
              /\ \A b \in Conns \ {a} : Own(b)' = Own(b)
              /\ UNCHANGED <<listener, shared>>]_vars

C9_Witness ==
    \E a, b \in Conns :
        /\ a # b
        /\ pc[a] = "done"
        /\ fault[a] = "send"
        /\ pc[b] = "sent"
        /\ served[b] = 2
        /\ WireStatus(b) = 200
        /\ wire[b].written = "full"
        /\ is_running
        /\ lpc = "accept"

\* Pattern p matches the whole of path q: literal for literal, .* for any run
\* of atoms that holds no newline.
RECURSIVE WholePathMatch(_, _)
WholePathMatch(p, q) ==
    IF p = <<>> THEN q = <<>>
    ELSE IF Head(p) = DotStar
      THEN \E n \in 0..Len(q) :
               /\ \A i \in 1..n : q[i] # NL
               /\ WholePathMatch(Tail(p), SubSeq(q, n + 1, Len(q)))
    ELSE q # <<>> /\ Head(q) = Head(p) /\ WholePathMatch(Tail(p), Tail(q))

\* The routes that match the whole path and the method of the lookup.
Winners(lookup) ==
    {i \in DOMAIN routes : /\ WholePathMatch(routes[i].path_regex, lookup.path)
                           /\ routes[i].method = lookup.method}

\* C10: when some route matches the whole path and the method of a request,
\* find_handler returns the handler of the first such route in registration
\* order, whatever routes come after it.
C10_FirstMatchWins ==
    (resolved # NoLookup /\ Winners(resolved) # {}) =>
        LET first == CHOOSE i \in Winners(resolved) : \A j \in Winners(resolved) : i <= j
        IN /\ resolved.kind = "handler"
           /\ resolved.handler = routes[first].handler

C10_Witness ==
    /\ Len(routes) = 3
    /\ routes[1] = [method |-> "GET", path_regex |-> <<"/", "x">>, handler |-> "h1"]
    /\ routes[2] = [method |-> "POST", path_regex |-> <<"/", "x">>, handler |-> "h2"]
    /\ routes[3] = [method |-> "POST", path_regex |-> <<"/", DotStar>>, handler |-> "h1"]
    /\ resolved.method = "POST"
    /\ resolved.path = <<"/", "x">>
    /\ resolved.handler = "h2"

\* The routes whose pattern matches the whole path of the lookup.
PathMatchers(lookup) ==
    {i \in DOMAIN routes : WholePathMatch(routes[i].path_regex, lookup.path)}

\* The method names in alphabetical order.
Alphabetical(methods) ==
    \A i, j \in DOMAIN methods :
        i < j => <<methods[i], methods[j]>>
                     \in {<<"GET", "POST">>, <<"GET", "PUT">>, <<"POST", "PUT">>}

\* C11 as stated: find_handler fails with MethodNotAllowed exactly when some
\* route's pattern matches the whole path and no such route has the request's
\* method, and the methods it reports are those of all the routes whose
\* pattern matches the path, each once, in sorted order.
C11_MethodNotAllowedExactly ==
    resolved # NoLookup =>
        /\ resolved.kind = "http_error"
               <=> (PathMatchers(resolved) # {} /\ Winners(resolved) = {})
        /\ resolved.kind = "http_error" =>
               /\ {resolved.allowed[i] : i \in DOMAIN resolved.allowed}
                      = {routes[i].method : i \in PathMatchers(resolved)}
               /\ Alphabetical(resolved.allowed)

\* C12 as stated: find_handler returns the default handler exactly when no
\* route's pattern matches the whole path, and raises nothing then.
C12_DefaultExactly ==
    resolved # NoLookup =>
        (PathMatchers(resolved) = {}
             <=> (resolved.kind = "handler" /\ resolved.handler = default_handler))

\* What the file claims speak of.  Every directory of FileDirectories but
\* None names the root /srv/data; CanonicalPath is the canonical path a
\* request path names under that root.
RootNames == <<"srv", "data">>

CanonicalPath(path) ==
    CASE path = <<"/", "files", "/", "a.txt">> -> <<"srv", "data", "a.txt">>
      [] path = <<"/", "files", "/", "sub", "/", "b.txt">> -> <<"srv", "data", "sub", "b.txt">>
      [] path = <<"/", "files", "/", "sub", "/", "..", "/", "a.txt">> ->
             <<"srv", "data", "a.txt">>
      [] path = <<"/", "files", "/", "..", "/", "..", "/", "etc", "/", "passwd">> ->
             <<"etc", "passwd">>
      [] path = <<"/", "files", "/", "..", "/", "data-private", "/", "x">> ->
             <<"srv", "data-private", "x">>
      [] path = <<"/", "files", "/", "/", "etc", "/", "passwd">> -> <<"etc", "passwd">>
      [] path = <<"/", "files", "/">> -> <<"srv", "data">>

\* The text of the root is a prefix of the text of path q: the names before
\* the root's last are the same and the root's last name begins q's.
TextPrefix(q) ==
    /\ Len(q) >= Len(RootNames)
    /\ \A i \in 1..(Len(RootNames) - 1) : q[i] = RootNames[i]
    /\ \E rest \in {"", "-private", "base"} :
           RootNames[Len(RootNames)] \o rest = q[Len(RootNames)]

\* Path q is the root or lies under it.
InsideRoot(q) ==
    Len(q) >= Len(RootNames) /\ SubSeq(q, 1, Len(RootNames)) = RootNames

FileCall(call) == call.op \in {"handle_file_get", "handle_file_post"}

\* The call failed with the HTTPException of that status.
Fails(call, status) ==
    /\ call.kind = "raise"
    /\ call.error.kind = "http_error"
    /\ call.error.status_code = status

\* The call returned a response of that status.
Returns(call, status) == call.kind = "response" /\ call.response.status_code = status

\* C13: with a root configured, a call of handle_file_get or handle_file_post
\* fails as Forbidden (403), leaving the file system as it was, for every
\* request path whose canonical path does not have the root's text as a
\* prefix, with .. segments or with an absolute rest; a path with .. segments
\* whose canonical path is under the root is not forbidden.
C13_OutsideRootForbidden ==
    [][(FileCall(called') /\ called'.directory # <<>>) =>
          IF TextPrefix(CanonicalPath(called'.request.path))
            THEN ~Fails(called', 403)
            ELSE Fails(called', 403) /\ fs' = fs]_vars

C13_Witness ==
    /\ called.op = "handle_file_post"
    /\ called.directory = <<"..", "/", "srv", "/", "data">>
    /\ called.request.path = <<"/", "files", "/", "..", "/", "..", "/", "etc", "/", "passwd">>
    /\ Fails(called, 403)
    /\ fs[<<"etc", "passwd">>] = FileNode("root:x:0:0")

\* C14 as stated: handle_file_get reads, and handle_file_post creates or
\* writes, only files and directories that are the root or lie under it.
C14_OnlyInsideRoot ==
    [][/\ (called'.op = "handle_file_get" /\ Returns(called', 200)) =>
              InsideRoot(CanonicalPath(called'.request.path))
       /\ called'.op = "handle_file_post" =>
              \A q \in FsPaths : fs'[q] # fs[q] => InsideRoot(q)]_vars

\* C15 as stated: handle_file_get fails with 500 when no root is configured,
\* whatever the path; else with 403 when the canonical path is outside the
\* root; else with 404 when the path does not exist or is no regular file;
\* else, when the read succeeds, it returns 200 with the whole file as body and
\* its size as Content-Length.  handle_file_post fails with 500 when no root
\* is configured, and changes nothing then.
C15_FileGetOutcomeOrder ==
    [][/\ called'.op = "handle_file_get" =>
              LET q == CanonicalPath(called'.request.path) IN
              /\ fs' = fs
              /\ IF called'.directory = <<>> THEN Fails(called', 500)
                 ELSE IF ~InsideRoot(q) THEN Fails(called', 403)
                 ELSE IF fs[q].kind # "file" THEN Fails(called', 404)
                 ELSE IF called'.io # "ok" THEN Fails(called', 500)
                 ELSE /\ Returns(called', 200)
                      /\ called'.response.body = Body(fs[q].data)
                      /\ \E i \in DOMAIN called'.response.headers :
                             called'.response.headers[i]
                                 = <<"Content-Length", ToString(Len(fs[q].data))>>
       /\ (called'.op = "handle_file_post" /\ called'.directory = <<>>) =>
              Fails(called', 500) /\ fs' = fs]_vars

\* C16: when handle_file_post returns 201 for a path and a body, the file of
\* that path holds exactly that body (nothing for an empty body), every
\* directory above it exists, and a handle_file_get of the same path on that
\* file system returns 200 with exactly that body; handle_file_get itself
\* changes nothing, and one that follows the post at once returns that body.
C16_WriteThenRead ==
    [][/\ (called'.op = "handle_file_post" /\ Returns(called', 201)) =>
              LET q == CanonicalPath(called'.request.path)
                  got == handle_file_get(FileRequest("GET", called'.request.path, ""),
                                         called'.directory, fs', "ok")
              IN /\ fs'[q] = FileNode(called'.request.body)
                 /\ \A n \in 0..(Len(q) - 1) : fs'[SubSeq(q, 1, n)].kind = "dir"
                 /\ got.kind = "response"
                 /\ got.response.status_code = 200
                 /\ got.response.body = Body(called'.request.body)
       /\ called'.op = "handle_file_get" => fs' = fs
       /\ (/\ called.op = "handle_file_post" /\ Returns(called, 201)
           /\ called'.op = "handle_file_get" /\ called'.io = "ok"
           /\ called'.request.path = called.request.path
           /\ called'.directory = called.directory) =>
              /\ Returns(called', 200)
              /\ called'.response.body = Body(called.request.body)]_vars

C16_Witness ==
    /\ called.op = "handle_file_get"
    /\ called.request.path = <<"/", "files", "/", "sub", "/", "b.txt">>
    /\ Returns(called, 200)
    /\ called.response.body = Body("hello")
    /\ fs[<<"srv", "data", "sub">>] = DirNode
    /\ fs[<<"srv", "data", "sub", "b.txt">>] = FileNode("hello")

\* C17 as stated: when two handle_file_post calls on the same resolved path
\* have both returned 201, the file holds exactly the body of one of them.
C17_LastWriterWins ==
    \A a, b \in Conns :
        (/\ a # b
         /\ posting[a].at = "returned" /\ posting[a].status = 201
         /\ posting[b].at = "returned" /\ posting[b].status = 201
         /\ posting[a].path = posting[b].path) =>
            fs[posting[a].path].data \in {posting[a].body, posting[b].body}


\* The body bytes and the Content-Length values of what was serialised.
LengthValues(bytes) ==
    {i \in DOMAIN bytes.headers : Lower(bytes.headers[i][1]) = "content-length"}

\* C18: every response made with a body and no Content-Length of its own goes
\* out with exactly one Content-Length header, whose value is the number of
\* bytes of the body that is sent; for a compressed echo that is the length of
\* the compressed bytes.
C18_ContentLengthIsByteLength ==
    called.op \in {"handle_echo", "handle_user_agent", "handle_not_found", "error"} =>
        /\ Cardinality(LengthValues(called.bytes)) = 1
        /\ \A i \in LengthValues(called.bytes) :
               called.bytes.headers[i][2] = ToString(Len(called.bytes.body))

\* The compressed echo of a text whose bytes are more than its characters.
C18_Witness ==
    /\ called.op = "handle_echo"
    /\ called.request.path = <<"/", "echo", "/", "café">>
    /\ called.bytes.body = GzipCompress("cafÃ©")
    /\ \E i \in DOMAIN called.bytes.headers :
           called.bytes.headers[i] = <<CONTENT_LENGTH, "11">>

\* The Accept-Encoding values whose comma-separated tokens, trimmed, include
\* the exact token gzip.
NamesGzip == {"gzip", "gzip, deflate", "deflate,gzip", "deflate, gzip"}

EchoAccept(call) ==
    IF "accept-encoding" \in DOMAIN call.request.headers
      THEN call.request.headers["accept-encoding"] ELSE "-"

HasContentEncoding(bytes) ==
    \E i \in DOMAIN bytes.headers : Lower(bytes.headers[i][1]) = "content-encoding"

\* C19: handle_echo compresses the body and adds Content-Encoding: gzip exactly
\* when a comma-separated, trimmed token of Accept-Encoding is gzip; otherwise
\* the body is the text after /echo/ as it is, with no Content-Encoding.
C19_GzipExactlyWhenAsked ==
    called.op = "handle_echo" =>
        LET text == Utf8Encode(called.request.path[4]) IN
        IF EchoAccept(called) \in NamesGzip
          THEN /\ called.bytes.body = GzipCompress(text)
               /\ \E i \in DOMAIN called.bytes.headers :
                      called.bytes.headers[i] = <<CONTENT_ENCODING, "gzip">>
          ELSE /\ called.bytes.body = text
               /\ ~HasContentEncoding(called.bytes)

\* gzip named second, after a space, is honoured.
C19_Witness ==
    /\ called.op = "handle_echo"
    /\ EchoAccept(called) = "deflate, gzip"
    /\ called.request.path[4] = "abc"
    /\ called.bytes.body = GzipCompress("abc")
    /\ HasContentEncoding(called.bytes)

\* C20: from_bytes accepts a start line only if it splits on spaces into
\* exactly three tokens; a start line of fewer or more tokens fails with 400
\* Bad Request.
C20_ExactlyThreeTokens ==
    (called.op = "from_bytes" /\ Len(called.start) # 3) =>
        /\ called.kind = "raise"
        /\ called.error.kind = "http_error"
        /\ called.error.status_code = BAD_REQUEST

\* The method a token names when letter case is ignored, "" when none.
MethodNamed(token) ==
    CASE token \in {"GET", "get"} -> "GET"
      [] token \in {"POST", "post"} -> "POST"
      [] token \in {"PUT", "put"} -> "PUT"
      [] OTHER -> ""

\* A header line that is not empty and has no colon.
ColonlessLine(lines) == \E i \in DOMAIN lines : Len(lines[i]) = 1 /\ lines[i] # <<"">>

BadRequestRaised(call) ==
    /\ call.kind = "raise"
    /\ call.error.kind = "http_error"
    /\ call.error.status_code = BAD_REQUEST

\* C21: from_bytes fails with 400 Bad Request when the method token names none
\* of the methods, whatever its case, and when a header line that is not empty
\* has no colon; a start line of three tokens with a known method in any case
\* and proper header lines is accepted, and the method is stored in upper case.
C21_UnknownMethodOrColonlessLine ==
    called.op = "from_bytes" =>
        /\ (MethodNamed(called.start[1]) = "" \/ ColonlessLine(called.lines))
               => BadRequestRaised(called)
        /\ called.kind = "return" => called.request.method = MethodNamed(called.start[1])
        /\ (Len(called.start) = 3 /\ MethodNamed(called.start[1]) # ""
                /\ ~ColonlessLine(called.lines))
               => called.kind = "return"

\* An unknown method in lower case above proper header lines.
C21_Witness ==
    /\ called.op = "from_bytes"
    /\ called.start = <<"brew", <<"/", "echo", "/", "abc">>, "HTTP/1.1">>
    /\ called.lines = <<HostLine>>
    /\ called.kind = "raise"
    /\ called.error = HTTPBadRequestError("Unsupported HTTP method")

\* The key and the value a header line stands for: the text before the first
\* colon, trimmed and in lower case, and the text after it, trimmed.
KeyOfLine(line) ==
    CASE line[1] \in {"Host"} -> "host"
      [] line[1] \in {"Connection", "CONNECTION", " Connection"} -> "connection"

ValueOfLine(line) ==
    CASE line = HostLine -> "localhost:4221"
      [] line = <<"Connection", " close">> -> "close"
      [] line = <<"CONNECTION", " keep-alive">> -> "keep-alive"
      [] line = <<" Connection", "close ">> -> "close"

\* The header lines before the empty last line, if there is one.
SentLines(lines) == SelectSeq(lines, LAMBDA l : l # <<"">>)

LastLineOf(lines, key) ==
    CHOOSE i \in DOMAIN lines :
        /\ KeyOfLine(lines[i]) = key
        /\ \A j \in DOMAIN lines : KeyOfLine(lines[j]) = key => j <= i

\* The mapping the header lines stand for, a later line replacing an earlier one
\* of the same key.
MappingOf(lines) ==
    [key \in {KeyOfLine(lines[i]) : i \in DOMAIN lines} |->
        ValueOfLine(lines[LastLineOf(lines, key)])]

NameSpellings(key) ==
    CASE key = "host" -> {"Host", "HOST", "host"}
      [] key = "connection" -> {"Connection", "CONNECTION", "connection"}

WellFormedMessage(call) ==
    /\ Len(call.start) = 3
    /\ MethodNamed(call.start[1]) # ""
    /\ call.start[2] # <<>>
    /\ call.start[3] = "HTTP/1.1"
    /\ ~ColonlessLine(call.lines)

\* C22: from_bytes of a well-formed message gives back its method, its path and
\* the mapping of its header lines, keys in lower case, values trimmed, the last
\* of several lines of one key winning; get_header finds each header under any
\* letter case of its name.
C22_ParseRoundTrip ==
    (called.op = "from_bytes" /\ WellFormedMessage(called)) =>
        LET sent == MappingOf(SentLines(called.lines)) IN
        /\ called.kind = "return"
        /\ called.request.method = MethodNamed(called.start[1])
        /\ called.request.path = called.start[2]
        /\ DOMAIN called.request.headers = DOMAIN sent
        /\ \A key \in DOMAIN sent :
               /\ called.request.headers[key] = sent[key]
               /\ \A name \in NameSpellings(key) :
                      get_header(called.request, name, "-") = sent[key]

\* One header sent twice in different letter case: the second value is kept.
C22_Witness ==
    /\ called.op = "from_bytes"
    /\ called.start[1] = "post"
    /\ called.lines = <<<<"Connection", " close">>, <<"CONNECTION", " keep-alive">>>>
    /\ called.body = "hello"
    /\ called.kind = "return"
    /\ called.request.method = "POST"
    /\ called.request.headers["connection"] = "keep-alive"
    /\ get_header(called.request, "Connection", "-") = "keep-alive"

\* C23: when stop is called while start runs its accept loop, also between
\* the loop's test of _is_running and its call of accept, the listening socket
\* is closed, the loop ends, and start returns without an error that nothing
\* handled.
C23_StopEndsStartCleanly ==
    /\ start_error = "none"
    /\ lpc = "returned" => (server_socket = "none" /\ ~is_running)

\* A handler thread that has started and not ended.
Running(c) == pc[c] \notin {"unborn", "done"}

\* C24: the accept loop never waits for request processing. Whatever the
\* handler threads are doing, a loop at accept with a peer waiting can accept it
\* and a loop at its test can go on; a handler thread starts only by an accept
\* that returns to the loop test in the same step, once per connection, and
\* no step of a handler moves the loop.
C24_AcceptNeverWaits ==
    /\ [](\A c \in Conns :
            (lpc = "accept" /\ server_socket = "open" /\ pc[c] = "unborn")
                => ENABLED Accept(c))
    /\ [][\A c \in Conns :
            /\ (pc[c] = "unborn" /\ pc'[c] # "unborn")
                   => (lpc = "accept" /\ lpc' = "test" /\ pc'[c] = "settimeout"
                       /\ \A d \in Conns \ {c} : pc'[d] = pc[d])
            /\ pc[c] # "unborn" => pc'[c] # "unborn"
            /\ (pc[c] # "unborn" /\ pc'[c] # pc[c]) => UNCHANGED listener]_vars

\* The second connection has been accepted while the first handler is between
\* its handler call and the sending of the response.
C24_Witness ==
    /\ pc["A"] = "respond"
    /\ pc["B"] = "settimeout"
    /\ served["B"] = 0
    /\ lpc = "test"

\* C25: a connection in its blocking read whose peer sends nothing more is
\* ended by its own handler: the read times out and the socket is closed,
\* with no step of the peer, of the listener or of another thread needed.
C25_SilentPeerIsClosed ==
    [](pc["A"] = "recv" => <>(pc["A"] = "done" /\ sock["A"].fd = "closed"))

\* The peer never sent a byte: the first read timed out and the socket is closed.
C25_Witness ==
    /\ served["A"] = 0
    /\ fault["A"] = "timeout"
    /\ pc["A"] = "done"
    /\ sock["A"].fd = "closed"
    /\ sock["A"].peer = "up"

\* The codes the status-code/text table is to cover.
TableCodes ==
    {200, 201, 301, 302, 303, 304, 400, 401, 403, 404, 405, 408, 409, 429, 500, 501, 502,
     503, 504, 505}

\* C26: a response built with a code of the table and no text of its own goes
\* out with a status line that carries the code and a text of that code, not
\* the generic "Unknown"; a text given by the caller is the one sent.
C26_TableCodesHaveText ==
    called.op = "HTTPResponse" =>
        /\ called.bytes.status_line[2] = called.response.status_code
        /\ (called.response.status_code \in TableCodes
               => called.bytes.status_line[3] \notin {"", "Unknown"})

HasConnectionClose(bytes) ==
    \E i \in DOMAIN bytes.headers :
        Lower(bytes.headers[i][1]) = "connection" /\ Lower(bytes.headers[i][2]) = "close"

\* C27: to_bytes, with close_connection true or false, leaves the response's
\* status code, status text, header mapping and body as they were built, so a
\* response serialised with close_connection true and then with false goes out
\* without Connection: close the second time.
C27_ToBytesLeavesResponse ==
    called.op = "to_bytes" =>
        /\ called.after.status_code = called.response.status_code
        /\ called.after.status_text = called.response.status_text
        /\ called.after.headers = called.response.headers
        /\ called.after.body = called.response.body
        /\ ~called.close_connection => ~HasConnectionClose(called.bytes)

\* C28: the route table, the default handler and the file-serving root are
\* read only once the server runs: after any interleaving of requests on the
\* connections they are what was registered before start.
C28_SharedStateReadOnly ==
    /\ routes = ConfiguredRoutes
    /\ default_handler = "handle_not_found"
    /\ directory = ConfiguredDirectory

\* Both connections have been answered, one of them twice, and a file was written.
C28_Witness ==
    /\ answered["A"] = MaxRequests
    /\ answered["B"] >= 1
    /\ fs # InitialFs
    /\ routes = ConfiguredRoutes
    /\ directory = ConfiguredDirectory

\* C29: a handle_file_post that fails as Forbidden, or as Internal Server
\* Error because no root is configured, has created no directory and has
\* created, truncated or written no file: the file system is as it was before
\* the call.
C29_RejectedWriteChangesNothing ==
    [][(/\ called'.op = "handle_file_post"
        /\ \/ Fails(called', FORBIDDEN)
           \/ (Fails(called', INTERNAL_SERVER_ERROR) /\ called'.directory = <<>>))
       => fs' = fs]_vars

\* A write to /etc/passwd through .. segments was refused after another write
\* had gone through; the file has its first contents.
C29_Witness ==
    /\ called.op = "handle_file_post"
    /\ Fails(called, FORBIDDEN)
    /\ called.request.body = "hello"
    /\ fs[<<"etc", "passwd">>] = InitialFs[<<"etc", "passwd">>]
    /\ fs[<<"srv", "data", "a.txt">>].kind = "file"

==========================================================================
